---- MODULE Spec2Model ----
(***************************************************************************)
(* State-machine model of the buggy-coder repository: the protected        *)
(* identifier registry (src/src/protection.py, src/src/state.py) and the   *)
(* structural editors registered as agent tools (src/src/graph.py).        *)
(*                                                                         *)
(* Source text is modelled as a sequence of one-character strings, so that *)
(* prefix/suffix tests, tokenisation, regular-expression substitution and  *)
(* parsing are computed on the characters, as the code computes them.      *)
(***************************************************************************)
EXTENDS Integers, Sequences, FiniteSets, TLC

VARIABLES
    baseline,          \* _registry._baseline: Optional[ProtectedIdentifiers]
    original_snippet,  \* _registry.original_snippet: Optional[str]
    call,              \* the last call made: who, which operation, arguments, return
    state,             \* a BuggyCoderState dict: its snippet, original_snippet
                       \* and protected_identifiers keys (None: key absent)
    history_cache,     \* memory._history_cache: key -> instance
    cache_lock,        \* memory._cache_lock: the thread holding it, or None
    instances,         \* the PersistentChatMessageHistory objects constructed
                       \* so far: instances[i] is the key instance i was made with
    threads,           \* each thread's position in get_history and its locals
    returned,          \* what get_history has returned: <<session_id, instance>>
    files,             \* the storage directory: file name -> content, None: no file
    histories,         \* the PersistentChatMessageHistory objects in use
    workers,           \* each thread's position in a history method, its locals
    added,             \* <<_session_id, message>> of the add calls that returned
    registry_lock,     \* ProtectedSymbolRegistry._lock: the thread holding it, or None
    callers,           \* each thread's position in register / ensure, its locals
    agent_log,         \* the records _structured_log has written for agent runs
    agent_runs         \* each run of StructuredLoggingAgent: mode, position, chunks

\* the variables of get_history in src/src/memory.py
memory_vars == <<history_cache, cache_lock, instances, threads, returned>>

\* the variables of PersistentChatMessageHistory in src/src/memory.py
store_vars == <<files, histories, workers, added>>

\* the variables of the threads inside ProtectedSymbolRegistry's methods
lock_vars == <<registry_lock, callers>>

\* the variables of StructuredLoggingAgent in src/src/graph.py
agent_vars == <<agent_log, agent_runs>>

\* the variables added for the histories on disk and what follows them
rest_vars == <<store_vars, lock_vars, agent_vars>>

vars == <<baseline, original_snippet, call, state, memory_vars, rest_vars>>

\* Optional[T]: None, or Some(x) holding x
None == <<>>

Some(x) == <<x>>

Get(opt) == opt[1]

\* ------------------------------------------------------------------------
\* Bounds of the model
\* ------------------------------------------------------------------------

\* Maximal number of lines of a snippet drawn as an input.
MaxLines == 2

\* Maximal number of times an editor is applied again to its own result.
MaxRepeat == 2

\* ------------------------------------------------------------------------
\* Characters and text
\* ------------------------------------------------------------------------

Letters ==
    {"a", "b", "c", "d", "e", "f", "g", "h", "i", "j", "k", "l", "m", "n",
     "o", "p", "q", "r", "s", "t", "u", "v", "w", "x", "y", "z", "C"}

Digits == {"0", "1", "2", "3", "4", "5", "6", "7", "8", "9"}

OpenBrackets == {"(", "[", "{"}

CloseBrackets == {")", "]", "}"}

RECURSIVE Join(_)
Join(seqs) ==
    IF seqs = <<>> THEN <<>> ELSE Head(seqs) \o Join(Tail(seqs))

StartsWith(text, prefix) ==
    /\ Len(text) >= Len(prefix)
    /\ SubSeq(text, 1, Len(prefix)) = prefix

EndsWith(text, suffix) ==
    /\ Len(text) >= Len(suffix)
    /\ SubSeq(text, Len(text) - Len(suffix) + 1, Len(text)) = suffix

\* text[i..] starts with pat
MatchAt(text, i, pat) ==
    /\ i + Len(pat) - 1 <= Len(text)
    /\ SubSeq(text, i, i + Len(pat) - 1) = pat

\* \w of the re module, on the model's alphabet
IsWordChar(c) == c \in Letters \cup Digits \cup {"_"}

\* str.isidentifier()
IsIdentifier(text) ==
    /\ text # <<>>
    /\ text[1] \in Letters \cup {"_"}
    /\ \A k \in 1..Len(text) : IsWordChar(text[k])

\* ------------------------------------------------------------------------
\* tokenize.generate_tokens, as far as the editors and the parser read it.
\* The text is cut into pieces that cover it completely: whitespace is kept
\* as a piece of its own, so that joining the pieces' strings is what
\* tokenize.untokenize rebuilds from the tokens' positions.
\* ------------------------------------------------------------------------

\* first index >= i whose character is not a name character
NameEnd(s, i) ==
    CHOOSE j \in i..(Len(s) + 1) :
        /\ \A k \in i..(j - 1) : IsWordChar(s[k])
        /\ (j = Len(s) + 1 \/ ~IsWordChar(s[j]))

NumberEnd(s, i) ==
    CHOOSE j \in i..(Len(s) + 1) :
        /\ \A k \in i..(j - 1) : s[k] \in Digits
        /\ (j = Len(s) + 1 \/ s[j] \notin Digits)

SpaceEnd(s, i) ==
    CHOOSE j \in i..(Len(s) + 1) :
        /\ \A k \in i..(j - 1) : s[k] = " "
        /\ (j = Len(s) + 1 \/ s[j] # " ")

\* first index >= i holding a newline, or Len(s) + 1
LineEnd(s, i) ==
    CHOOSE j \in i..(Len(s) + 1) :
        /\ \A k \in i..(j - 1) : s[k] # "\n"
        /\ (j = Len(s) + 1 \/ s[j] = "\n")

\* index after the quote closing the string opened at i, 0 when the line ends first
StringEnd(s, i) ==
    LET stop == LineEnd(s, i + 1)
        closing == {k \in (i + 1)..(stop - 1) : s[k] = "'"}
    IN  IF closing = {} THEN 0
        ELSE (CHOOSE k \in closing : \A l \in closing : k <= l) + 1

Piece(type, s, i, j) == [type |-> type, string |-> SubSeq(s, i, j - 1)]

\* the type of the piece that starts at s[i]
TypeAt(s, i, parenlev) ==
    CASE s[i] \in Letters \cup {"_"} -> "NAME"
      [] s[i] \in Digits -> "NUMBER"
      [] s[i] = " " -> "WS"
      [] s[i] = "\n" -> IF parenlev > 0 THEN "NL" ELSE "NEWLINE"
      [] s[i] = "#" -> "COMMENT"
      [] s[i] = "'" -> IF StringEnd(s, i) = 0 THEN "ERRORTOKEN" ELSE "STRING"
      [] OTHER -> "OP"

\* the index after the piece of that type that starts at s[i]
EndAt(s, i, type) ==
    CASE type = "NAME" -> NameEnd(s, i)
      [] type = "NUMBER" -> NumberEnd(s, i)
      [] type = "WS" -> SpaceEnd(s, i)
      [] type = "COMMENT" -> LineEnd(s, i)
      [] type = "STRING" -> StringEnd(s, i)
      [] type = "OP" /\ MatchAt(s, i, <<"=", "=">>) -> i + 2
      [] OTHER -> i + 1

\* the bracket depth after the piece
LevelAfter(c, type, parenlev) ==
    IF type # "OP" THEN parenlev
    ELSE IF c \in OpenBrackets THEN parenlev + 1
    ELSE IF c \in CloseBrackets THEN parenlev - 1
    ELSE parenlev

Cons(piece, rest) == [ok |-> rest.ok, toks |-> <<piece>> \o rest.toks]

\* The pieces from index i on, and whether the end of the text is reached
\* outside every bracket (otherwise tokenize raises TokenError: EOF in
\* multi-line statement, after yielding the pieces before it).
RECURSIVE Scan(_, _, _), ScanPiece(_, _, _, _), ScanRest(_, _, _, _, _)
Scan(s, i, parenlev) ==
    IF i > Len(s) THEN [ok |-> parenlev <= 0, toks |-> <<>>]
    ELSE ScanPiece(s, i, parenlev, TypeAt(s, i, parenlev))

ScanPiece(s, i, parenlev, type) ==
    ScanRest(s, i, EndAt(s, i, type), type, LevelAfter(s[i], type, parenlev))

ScanRest(s, i, j, type, lev) == Cons(Piece(type, s, i, j), Scan(s, j, lev))

generate_tokens(source) == Scan(source, 1, 0)

\* tokenize.untokenize on 5-tuples: the strings at their positions
untokenize(toks) == Join([k \in 1..Len(toks) |-> toks[k].string])

\* ------------------------------------------------------------------------
\* ast.parse, on the statements the model's snippets are written in:
\*   simple   ::= pass | import NAME | NAME = expr | expr
\*   compound ::= def NAME ( ) : simple | class NAME : simple
\*              | if expr : simple (NEWLINE elif expr : simple)*
\*                [NEWLINE else : simple]
\*   expr     ::= primary (== primary)*
\*   primary  ::= (NAME | NUMBER | STRING) (. NAME | ( [expr] ))*
\* one statement per line. Any other line is a SyntaxError.
\* ------------------------------------------------------------------------

K_def == <<"d", "e", "f">>
K_class == <<"c", "l", "a", "s", "s">>
K_if == <<"i", "f">>
K_elif == <<"e", "l", "i", "f">>
K_else == <<"e", "l", "s", "e">>
K_pass == <<"p", "a", "s", "s">>
K_import == <<"i", "m", "p", "o", "r", "t">>

Keywords == {K_def, K_class, K_if, K_elif, K_else, K_pass, K_import}

IsName(tok) == tok.type = "NAME" /\ tok.string \notin Keywords

IsKw(tok, kw) == tok.type = "NAME" /\ tok.string = kw

IsOp(tok, ch) == tok.type = "OP" /\ tok.string = ch

\* the tokens the parser reads: no whitespace, comments or in-bracket newlines
Significant(toks) ==
    SelectSeq(toks, LAMBDA tok : tok.type \notin {"WS", "COMMENT", "NL"})

\* the logical lines: the tokens between NEWLINE tokens, blank lines dropped
RECURSIVE LogicalLines(_)
LogicalLines(toks) ==
    IF toks = <<>> THEN <<>>
    ELSE
        LET ends == {k \in 1..Len(toks) : toks[k].type = "NEWLINE"}
            stop == IF ends = {} THEN Len(toks) + 1
                    ELSE CHOOSE k \in ends : \A l \in ends : k <= l
            first == SubSeq(toks, 1, stop - 1)
            rest == LogicalLines(SubSeq(toks, stop + 1, Len(toks)))
        IN  IF first = <<>> THEN rest ELSE <<first>> \o rest

At(t, i) == IF i \in 1..Len(t) THEN t[i] ELSE [type |-> "ENDMARKER", string |-> <<>>]

\* Index after the expression (primary, trailers) starting at i; 0: no parse.
RECURSIVE ExprEnd(_, _), ExprRest(_, _), PrimaryEnd(_, _), TrailersEnd(_, _),
          CallClose(_, _)
ExprEnd(t, i) == ExprRest(t, PrimaryEnd(t, i))

\* after a primary that ends before p: a comparison goes on, or the end
ExprRest(t, p) ==
    IF p = 0 THEN 0
    ELSE IF IsOp(At(t, p), <<"=", "=">>) THEN ExprEnd(t, p + 1)
    ELSE p

PrimaryEnd(t, i) ==
    IF IsName(At(t, i)) \/ At(t, i).type \in {"NUMBER", "STRING"}
    THEN TrailersEnd(t, i + 1)
    ELSE 0

TrailersEnd(t, i) ==
    IF IsOp(At(t, i), <<".">>)
    THEN IF IsName(At(t, i + 1)) THEN TrailersEnd(t, i + 2) ELSE 0
    ELSE IF IsOp(At(t, i), <<"(">>)
    THEN IF IsOp(At(t, i + 1), <<")">>) THEN TrailersEnd(t, i + 2)
         ELSE CallClose(t, ExprEnd(t, i + 1))
    ELSE i

\* the bracket that closes a call whose argument ends before e
CallClose(t, e) ==
    IF e # 0 /\ IsOp(At(t, e), <<")">>) THEN TrailersEnd(t, e + 1) ELSE 0

IsExpr(t) == t # <<>> /\ ExprEnd(t, 1) = Len(t) + 1

\* _qualified_name of the callee that ends at token e: the chain of names
\* joined by dots (an attribute of a non-name keeps its attribute names only)
RECURSIVE ChainStart(_, _)
ChainStart(t, e) ==
    IF e >= 3 /\ IsOp(t[e - 1], <<".">>) /\ t[e - 2].type = "NAME"
    THEN ChainStart(t, e - 2)
    ELSE e

qualified_name(t, e) ==
    LET b == ChainStart(t, e)
    IN  Join([k \in 1..(e - b + 1) |-> t[b + k - 1].string])

\* the names of the Call nodes of an expression: a call trailer on a Name or
\* an Attribute
CallsIn(t) ==
    {qualified_name(t, k - 1) :
        k \in {l \in 2..Len(t) : IsOp(t[l], <<"(">>) /\ t[l - 1].type = "NAME"}}

SyntaxError == [kind |-> "SyntaxError"]

SimpleStmt(t) ==
    IF t = <<>> THEN SyntaxError
    ELSE IF Len(t) = 1 /\ IsKw(t[1], K_pass)
    THEN [kind |-> "Simple", calls |-> {}]
    ELSE IF Len(t) = 2 /\ IsKw(t[1], K_import) /\ IsName(t[2])
    THEN [kind |-> "Simple", calls |-> {}]
    ELSE IF Len(t) >= 3 /\ IsName(t[1]) /\ IsOp(t[2], <<"=">>)
            /\ IsExpr(SubSeq(t, 3, Len(t)))
    THEN [kind |-> "Simple", calls |-> CallsIn(SubSeq(t, 3, Len(t)))]
    ELSE IF IsExpr(t)
    THEN [kind |-> "Simple", calls |-> CallsIn(t)]
    ELSE SyntaxError

\* index of the colon that ends an if header: the first colon of the line
ColonIndex(t) ==
    LET colons == {k \in 1..Len(t) : IsOp(t[k], <<":">>)}
    IN  IF colons = {} THEN 0 ELSE CHOOSE k \in colons : \A l \in colons : k <= l

\* a compound statement with its one-statement body, if the body parses
Compound(kind, name, test, body) ==
    IF body = SyntaxError THEN SyntaxError
    ELSE [kind |-> kind, name |-> name, test |-> test, body |-> <<body>>,
          orelse |-> <<>>]

\* the If of an if or elif line, without its orelse
IfStmt(t, c) ==
    IF c = 0 \/ ~IsExpr(SubSeq(t, 2, c - 1)) THEN SyntaxError
    ELSE Compound("If", <<>>, SubSeq(t, 2, c - 1), SimpleStmt(SubSeq(t, c + 1, Len(t))))

\* a statement that is no if
Stmt(t) ==
    IF Len(t) >= 5 /\ IsKw(t[1], K_def) /\ IsName(t[2]) /\ IsOp(t[3], <<"(">>)
       /\ IsOp(t[4], <<")">>) /\ IsOp(t[5], <<":">>)
    THEN Compound("FunctionDef", t[2].string, <<>>, SimpleStmt(SubSeq(t, 6, Len(t))))
    ELSE IF Len(t) >= 3 /\ IsKw(t[1], K_class) /\ IsName(t[2]) /\ IsOp(t[3], <<":">>)
    THEN Compound("ClassDef", t[2].string, <<>>, SimpleStmt(SubSeq(t, 4, Len(t))))
    ELSE SimpleStmt(t)

\* the statement of an else line
ElseStmt(t) ==
    IF Len(t) >= 2 /\ IsOp(t[2], <<":">>) THEN SimpleStmt(SubSeq(t, 3, Len(t)))
    ELSE SyntaxError

WithOrelse(node, orelse) ==
    IF node = SyntaxError \/ (orelse # <<>> /\ orelse[1] = SyntaxError)
    THEN SyntaxError
    ELSE [node EXCEPT !.orelse = orelse]

\* the If of the if or elif line k, and the orelse that line k opens: the If
\* of an elif line, the statement of an else line, or nothing
RECURSIVE IfAt(_, _), Orelse(_, _)
IfAt(lines, k) ==
    WithOrelse(IfStmt(lines[k], ColonIndex(lines[k])), Orelse(lines, k + 1))

Orelse(lines, k) ==
    IF k > Len(lines) THEN <<>>
    ELSE IF IsKw(lines[k][1], K_elif) THEN <<IfAt(lines, k)>>
    ELSE IF IsKw(lines[k][1], K_else) THEN <<ElseStmt(lines[k])>>
    ELSE <<>>

\* the index after the elif lines and the else line that follow from line k on
RECURSIVE ChainEnd(_, _)
ChainEnd(lines, k) ==
    IF k > Len(lines) THEN k
    ELSE IF IsKw(lines[k][1], K_elif) THEN ChainEnd(lines, k + 1)
    ELSE IF IsKw(lines[k][1], K_else) THEN k + 1
    ELSE k

RECURSIVE Statements(_, _)
Statements(lines, k) ==
    IF k > Len(lines) THEN <<>>
    ELSE IF IsKw(lines[k][1], K_if)
    THEN <<IfAt(lines, k)>> \o Statements(lines, ChainEnd(lines, k + 1))
    ELSE <<Stmt(lines[k])>> \o Statements(lines, k + 1)

ModuleOf(body) ==
    IF \E k \in 1..Len(body) : body[k] = SyntaxError THEN SyntaxError
    ELSE [kind |-> "Module", body |-> body]

ParseLines(lines) == ModuleOf(Statements(lines, 1))

ParseTokens(lexed) ==
    IF ~lexed.ok \/ \E k \in 1..Len(lexed.toks) : lexed.toks[k].type = "ERRORTOKEN"
    THEN SyntaxError
    ELSE ParseLines(LogicalLines(Significant(lexed.toks)))

\* ast.parse(snippet): the module's statements, or SyntaxError
ast_parse(snippet) == ParseTokens(generate_tokens(snippet))

\* ------------------------------------------------------------------------
\* Inputs: snippets are drawn as at most MaxLines lines taken, in order, from
\* a list of lines, each ended by a newline.
\* ------------------------------------------------------------------------

RECURSIVE PickLines(_, _, _)
PickLines(lines, chosen, k) ==
    IF k > Len(lines) THEN <<>>
    ELSE (IF k \in chosen THEN lines[k] \o <<"\n">> ELSE <<>>)
         \o PickLines(lines, chosen, k + 1)

SnippetsOf(lines) ==
    {PickLines(lines, chosen, 1) :
        chosen \in {c \in SUBSET (1..Len(lines)) : Cardinality(c) <= MaxLines}}

\* the same snippets, and each without its final newline
WithoutFinalNewline(snippets) ==
    snippets \cup {SubSeq(s, 1, Len(s) - 1) : s \in snippets \ {<<>>}}

\* def f():pass / class C:pass / m.h() / if __name__=='__main__':f() / def (
RegistryLines ==
    << <<"d", "e", "f", " ", "f", "(", ")", ":", "p", "a", "s", "s">>,
       <<"c", "l", "a", "s", "s", " ", "C", ":", "p", "a", "s", "s">>,
       <<"m", ".", "h", "(", ")">>,
       <<"i", "f", " ", "_", "_", "n", "a", "m", "e", "_", "_", "=", "=", "'",
         "_", "_", "m", "a", "i", "n", "_", "_", "'", ":", "f", "(", ")">>,
       <<"d", "e", "f", " ", "(">> >>

RegistrySnippets == SnippetsOf(RegistryLines)

\* ab=a / s='a' / x.a / print(a) / f(a
RenameLines ==
    << <<"a", "b", "=", "a">>,
       <<"s", "=", "'", "a", "'">>,
       <<"x", ".", "a">>,
       <<"p", "r", "i", "n", "t", "(", "a", ")">>,
       <<"f", "(", "a">> >>

RenameSnippets == WithoutFinalNewline(SnippetsOf(RenameLines))

RenameOlds == {<<>>, <<"a">>}

RenameNews == {<<"a">>, <<"c">>, <<"c", ".", "d">>}

\* #!x / #coding:u / '''d''' / (blank) / import os / x=1
ImportLines ==
    << <<"#", "!", "x">>,
       <<"#", "c", "o", "d", "i", "n", "g", ":", "u">>,
       <<"'", "'", "'", "d", "'", "'", "'">>,
       <<>>,
       <<"i", "m", "p", "o", "r", "t", " ", "o", "s">>,
       <<"x", "=", "1">> >>

AddImportSnippets == WithoutFinalNewline(SnippetsOf(ImportLines))

AddImportModules == {<<"m">>, <<"o", "s">>}

\* arguments of the editors in the guarded session
GuardModules == {<<"m">>}
GuardOlds == {<<"f">>, <<"C">>}
GuardNews == {<<"g">>}

\* g() / if __name__=='__main__':m.h() / else:f() / if x():k() /
\* elif __name__=='__main__':j() / if __name__=='__main__'==e():f() /
\* def f():g()
CollectLines ==
    << <<"g", "(", ")">>,
       <<"i", "f", " ", "_", "_", "n", "a", "m", "e", "_", "_", "=", "=", "'",
         "_", "_", "m", "a", "i", "n", "_", "_", "'", ":", "m", ".", "h", "(", ")">>,
       <<"e", "l", "s", "e", ":", "f", "(", ")">>,
       <<"i", "f", " ", "x", "(", ")", ":", "k", "(", ")">>,
       <<"e", "l", "i", "f", " ", "_", "_", "n", "a", "m", "e", "_", "_", "=", "=", "'",
         "_", "_", "m", "a", "i", "n", "_", "_", "'", ":", "j", "(", ")">>,
       <<"i", "f", " ", "_", "_", "n", "a", "m", "e", "_", "_", "=", "=", "'",
         "_", "_", "m", "a", "i", "n", "_", "_", "'", "=", "=", "e", "(", ")", ":",
         "f", "(", ")">>,
       <<"d", "e", "f", " ", "f", "(", ")", ":", "g", "(", ")">> >>

CollectSnippets == WithoutFinalNewline(SnippetsOf(CollectLines))

\* names asked of is_protected
ProbeNames == {<<>>, <<"f">>, <<"C">>, <<"m">>, <<"m", ".", "h">>, <<"h">>}

\* ------------------------------------------------------------------------
\* src/src/state.py: ProtectedIdentifiers and its collector
\* ------------------------------------------------------------------------

ProtectedIdentifiers(functions, classes, calls, entry_points) ==
    [functions |-> functions, classes |-> classes, calls |-> calls,
     entry_points |-> entry_points]

EmptyIdentifiers == ProtectedIdentifiers({}, {}, {}, {})

Merge(a, b) ==
    ProtectedIdentifiers(a.functions \cup b.functions, a.classes \cup b.classes,
                         a.calls \cup b.calls, a.entry_points \cup b.entry_points)

\* identifier.split(".", 1)[0]
split_base(identifier) ==
    LET dots == {k \in 1..Len(identifier) : identifier[k] = "."}
    IN  IF dots = {} THEN identifier
        ELSE SubSeq(identifier, 1, (CHOOSE k \in dots : \A l \in dots : k <= l) - 1)

\* the comparison's operands that are a single token: Name ids, str constants
OperandTokens(test) ==
    LET depth(k) ==
            Cardinality({l \in 1..(k - 1) : IsOp(test[l], <<"(">>)})
            - Cardinality({l \in 1..(k - 1) : IsOp(test[l], <<")">>)})
        eqs == {k \in 1..Len(test) : IsOp(test[k], <<"=", "=">>) /\ depth(k) = 0}
    IN  IF eqs = {} THEN {}
        ELSE {test[k] : k \in {l \in 1..Len(test) :
                                 /\ (l = 1 \/ (l - 1) \in eqs)
                                 /\ (l = Len(test) \/ (l + 1) \in eqs)}}

DunderName == <<"_", "_", "n", "a", "m", "e", "_", "_">>
DunderMain == <<"_", "_", "m", "a", "i", "n", "_", "_">>

GuardOperands(operands) ==
    LET names == {tok.string : tok \in {o \in operands : o.type = "NAME"}}
        constants == {SubSeq(tok.string, 2, Len(tok.string) - 1) :
                        tok \in {o \in operands : o.type = "STRING"}}
    IN  DunderName \in names /\ DunderMain \in constants

is_dunder_main_guard(test) == GuardOperands(OperandTokens(test))

\* visit_Call on the calls of one statement
VisitCalls(calls, inside_main_guard) ==
    ProtectedIdentifiers({}, {}, calls,
                         IF inside_main_guard
                         THEN {split_base(identifier) : identifier \in calls}
                         ELSE {})

\* what visiting the node itself records
Own(node, inside_main_guard) ==
    CASE node.kind = "FunctionDef" -> ProtectedIdentifiers({node.name}, {}, {}, {})
      [] node.kind = "ClassDef" -> ProtectedIdentifiers({}, {node.name}, {}, {})
      [] node.kind = "If" ->
            IF is_dunder_main_guard(node.test) THEN EmptyIdentifiers
            ELSE VisitCalls(CallsIn(node.test), inside_main_guard)
      [] node.kind = "Simple" -> VisitCalls(node.calls, inside_main_guard)
      [] OTHER -> EmptyIdentifiers

Flagged(nodes, flag) == [k \in 1..Len(nodes) |-> <<nodes[k], flag>>]

\* the statements visited below the node, each with the flag it is visited under
Children(node, inside_main_guard) ==
    CASE node.kind \in {"FunctionDef", "ClassDef"} ->
            Flagged(node.body, inside_main_guard)
      [] node.kind = "If" ->
            Flagged(node.body,
                    IF is_dunder_main_guard(node.test) THEN TRUE
                    ELSE inside_main_guard)
            \o Flagged(node.orelse, inside_main_guard)
      [] OTHER -> <<>>

RECURSIVE Visit(_, _), VisitAll(_)
\* _ProtectedIdentifierCollector.visit
Visit(node, inside_main_guard) ==
    Merge(Own(node, inside_main_guard), VisitAll(Children(node, inside_main_guard)))

VisitAll(flagged) ==
    IF flagged = <<>> THEN EmptyIdentifiers
    ELSE Merge(Visit(Head(flagged)[1], Head(flagged)[2]), VisitAll(Tail(flagged)))

CollectTree(tree) ==
    IF tree = SyntaxError THEN EmptyIdentifiers
    ELSE VisitAll(Flagged(tree.body, FALSE))

Collect(snippet) == CollectTree(ast_parse(snippet))

\* Collect of the input snippets, computed once
CollectedInputs == [snippet \in RegistrySnippets |-> Collect(snippet)]

collect_protected_identifiers(snippet) ==
    IF snippet \in RegistrySnippets THEN CollectedInputs[snippet]
    ELSE Collect(snippet)

all_identifiers(ids) ==
    ids.functions \cup ids.classes \cup ids.calls \cup ids.entry_points

\* a forbids that knows the recorded calls only by their full name
forbids_exact_calls(ids, name) ==
    /\ name # <<>>
    /\ \/ split_base(name) \in ids.functions \cup ids.classes \cup ids.entry_points
       \/ name \in ids.calls

forbids(ids, name) ==
    IF name = <<>> THEN FALSE
    ELSE LET base == split_base(name)
             protected_bases == ids.functions \cup ids.classes \cup ids.entry_points
             call_bases == {split_base(identifier) : identifier \in ids.calls}
         IN  IF base \in protected_bases \/ base \in call_bases THEN TRUE
             ELSE name \in ids.calls

\* a violation "category:name" is the pair <<category, name>>
Missing(base, current) ==
    {<<"function", name>> : name \in base.functions \ current.functions}
    \cup {<<"class", name>> : name \in base.classes \ current.classes}
    \cup {<<"entry-point", name>> : name \in base.entry_points \ current.entry_points}
    \cup {<<"call", name>> : name \in base.calls \ current.calls}

\* a diff that leaves the entry-point category out
find_violations_without_entry_points(snippet, base) ==
    {v \in Missing(base, collect_protected_identifiers(snippet)) : v[1] # "entry-point"}

find_protected_identifier_violations(snippet, base) ==
    IF all_identifiers(base) = {} THEN {}
    ELSE Missing(base, collect_protected_identifiers(snippet))

\* ------------------------------------------------------------------------
\* src/src/protection.py: ProtectedSymbolRegistry. Each method is given the
\* registry's fields and yields the fields after it and the value returned;
\* the part of a method under self._lock is one atomic step (register's
\* collect before the lock reads only its argument).
\* ------------------------------------------------------------------------

Registry(base, orig, ret) ==
    [baseline |-> base, original_snippet |-> orig, ret |-> ret]

initialized(base) == base # None

\* the fields and the return once identifiers is made the baseline
Armed(identifiers, snippet) == Registry(Some(identifiers), Some(snippet), identifiers)

\* a register that takes every snippet as the new baseline
register_overwrites(base, orig, snippet, force) ==
    Armed(collect_protected_identifiers(snippet), snippet)

register(base, orig, snippet, force) ==
    IF force \/ base = None
    THEN Armed(collect_protected_identifiers(snippet), snippet)
    ELSE Registry(base, orig, Get(base))

\* a test that takes the empty snippet for a snippet
NotNone(snippet) == snippet # None

\* a snippet that is None or empty is falsy
Truthy(snippet) == snippet # None /\ Get(snippet) # <<>>

\* an ensure that arms the baseline and forgets the snippet it came from
ensure_forgets_snippet(base, orig, snippet) ==
    IF base = None /\ Truthy(snippet)
    THEN Registry(Some(collect_protected_identifiers(Get(snippet))), orig,
                  collect_protected_identifiers(Get(snippet)))
    ELSE Registry(base, orig, IF base = None THEN EmptyIdentifiers ELSE Get(base))

ensure(base, orig, snippet) ==
    IF base = None /\ Truthy(snippet)
    THEN Armed(collect_protected_identifiers(Get(snippet)), Get(snippet))
    ELSE Registry(base, orig, IF base = None THEN EmptyIdentifiers ELSE Get(base))

is_protected(base, name) ==
    IF base = None THEN FALSE ELSE forbids(Get(base), name)

validate(base, snippet) ==
    IF base = None THEN {}
    ELSE find_protected_identifier_violations(snippet, Get(base))

\* a reset that forgets the baseline but keeps the snippet it came from
reset_keeps_original(base, orig) == Registry(None, orig, None)

reset(base, orig) == Registry(None, None, None)

\* threading.Lock: acquire goes through when no thread holds the lock
LockIgnored(lock) == TRUE

LockFree(lock) == lock = None

\* the test that guards the two assignments, caller: the thread's locals
Unarmed(caller, base) ==
    IF caller.op = "register" THEN caller.force \/ base = None
    ELSE base = None /\ Truthy(caller.snippet)

\* self._baseline or identifiers / self._baseline or ProtectedIdentifiers():
\* a ProtectedIdentifiers has neither __bool__ nor __len__, it is truthy
Fallback(caller, base) ==
    IF base # None THEN Get(base)
    ELSE IF caller.op = "register" THEN Get(caller.identifiers)
    ELSE EmptyIdentifiers

\* ------------------------------------------------------------------------
\* src/src/state.py, src/src/protection.py: the snapshot kept on a state dict
\* ------------------------------------------------------------------------

\* a state dict with none of the three keys
EmptyState ==
    [snippet |-> None, original_snippet |-> None, protected_identifiers |-> None]

\* snippet or state.get("snippet") or state.get("original_snippet") or ""
effective_snippet(st, snippet) ==
    IF Truthy(snippet) THEN Get(snippet)
    ELSE IF Truthy(st.snippet) THEN Get(st.snippet)
    ELSE IF Truthy(st.original_snippet) THEN Get(st.original_snippet)
    ELSE <<>>

\* the state and the return once identifiers were collected from effective
Stored(st, effective, identifiers) ==
    [state |-> [st EXCEPT
                   !.protected_identifiers = Some(identifiers),
                   !.original_snippet =
                       IF effective # <<>> /\ ~Truthy(st.original_snippet)
                       THEN Some(effective) ELSE @],
     ret |-> identifiers]

StoreEffective(st, effective) ==
    Stored(st, effective,
           IF effective # <<>> THEN collect_protected_identifiers(effective)
           ELSE EmptyIdentifiers)

store_protected_identifiers(st, snippet) ==
    StoreEffective(st, effective_snippet(st, snippet))

\* the registry, the state and the return after the store and the register
Updated(stored, reg) ==
    [baseline |-> reg.baseline, original_snippet |-> reg.original_snippet,
     state |-> stored.state, ret |-> stored.ret]

\* ProtectedSymbolRegistry.update_from_state(state)
update_from_state(base, orig, st) ==
    LET snippet == IF Truthy(st.snippet) THEN st.snippet ELSE st.original_snippet
    IN  IF ~Truthy(snippet)
        THEN [baseline |-> base, original_snippet |-> orig, state |-> st,
              ret |-> IF st.protected_identifiers # None
                      THEN Get(st.protected_identifiers) ELSE EmptyIdentifiers]
        ELSE Updated(store_protected_identifiers(st, snippet),
                     register(base, orig, Get(snippet), FALSE))

\* def f():pass / class C:pass
StateLines == SubSeq(RegistryLines, 1, 2)

StateSnippets == SnippetsOf(StateLines)

\* ------------------------------------------------------------------------
\* src/src/memory.py: the cache of history instances
\* ------------------------------------------------------------------------

\* the calls of get_history one thread makes
MaxCalls == 2

SessionIds == {"", "default", "s"}

\* key = session_id or "default"
HistoryKey(session_id) == IF session_id = "" THEN "default" ELSE session_id

HistoryKeys == {HistoryKey(session_id) : session_id \in SessionIds}

\* a thread outside get_history
Idle(calls) ==
    [pc |-> "idle", session_id |-> "", key |-> "", history |-> None,
     calls |-> calls]

\* an acquire that never waits for the holder
AlwaysAcquire(lock) == TRUE

\* with _cache_lock: the lock is taken only when no thread holds it
CanAcquire(lock) == lock = None

\* ------------------------------------------------------------------------
\* src/src/graph.py: the structural editors registered as tools
\* ------------------------------------------------------------------------

IsSpace(c) == c \in {" ", "\n", "\t"}

\* str.strip()
RECURSIVE LStrip(_), RStrip(_)
LStrip(text) ==
    IF text # <<>> /\ IsSpace(Head(text)) THEN LStrip(Tail(text)) ELSE text

RStrip(text) ==
    IF text # <<>> /\ IsSpace(text[Len(text)])
    THEN RStrip(SubSeq(text, 1, Len(text) - 1))
    ELSE text

Strip(text) == RStrip(LStrip(text))

ImportLine(module) == K_import \o <<" ">> \o Strip(module)

add_import_buggy(snippet, module) ==
    LET import_line == ImportLine(module)
        needs_separator == ~StartsWith(snippet, <<"\n">>)
    IN  IF snippet # <<>>
        THEN IF needs_separator THEN import_line \o <<"\n">> \o snippet
             ELSE import_line \o snippet
        ELSE import_line \o <<"\n">>

\* re.subn(pattern, new, text) from index i on, for the two patterns the
\* rename uses: re.escape(old), and with word the same between (?<!\w), (?!\w)
RECURSIVE ReSubFrom(_, _, _, _, _)
ReSubFrom(text, i, old, new, word) ==
    IF i > Len(text) THEN <<>>
    ELSE IF /\ MatchAt(text, i, old)
            /\ word => (i = 1 \/ ~IsWordChar(text[i - 1]))
            /\ word => (i + Len(old) > Len(text) \/ ~IsWordChar(text[i + Len(old)]))
    THEN new \o ReSubFrom(text, i + Len(old), old, new, word)
    ELSE <<text[i]>> \o ReSubFrom(text, i + 1, old, new, word)

re_subn(text, old, new, word) == ReSubFrom(text, 1, old, new, word)

\* the token loop of rename_first_occurrence
RenameTokens(toks, old, new) ==
    [k \in 1..Len(toks) |->
        IF toks[k].type = "NAME" /\ toks[k].string = old
        THEN [toks[k] EXCEPT !.string = new]
        ELSE toks[k]]

\* result[:-1] when a newline was added to a snippet that had none
DropAddedNewline(snippet, result) ==
    IF ~EndsWith(snippet, <<"\n">>) /\ EndsWith(result, <<"\n">>)
    THEN SubSeq(result, 1, Len(result) - 1)
    ELSE result

RenameLexed(snippet, old, new, lexed) ==
    IF ~lexed.ok THEN re_subn(snippet, old, new, TRUE)
    ELSE DropAddedNewline(snippet, untokenize(RenameTokens(lexed.toks, old, new)))

Rename(snippet, old, new) ==
    IF old = <<>> \/ old = new THEN snippet
    ELSE IF IsIdentifier(old) /\ IsIdentifier(new)
    THEN RenameLexed(snippet, old, new,
                     generate_tokens(IF EndsWith(snippet, <<"\n">>) THEN snippet
                                     ELSE snippet \o <<"\n">>))
    ELSE re_subn(snippet, old, new, FALSE)

\* Rename of the input snippets, computed once
RenameInputs ==
    (RegistrySnippets \X GuardOlds \X GuardNews)
    \cup (RenameSnippets \X RenameOlds \X RenameNews)

RenamedInputs == [a \in RenameInputs |-> Rename(a[1], a[2], a[3])]

rename_first_occurrence(snippet, old, new) ==
    IF <<snippet, old, new>> \in RenameInputs
    THEN RenamedInputs[<<snippet, old, new>>]
    ELSE Rename(snippet, old, new)

\* ------------------------------------------------------------------------
\* src/src/graph.py: fix_indexing
\* ------------------------------------------------------------------------

CONFIRMATION_KEYWORDS ==
    {<<"o", "f", "f", " ", "b", "y", " ", "o", "n", "e">>,
     <<"o", "f", "f", "-", "b", "y", "-", "o", "n", "e">>,
     <<"1", "-", "b", "a", "s", "e", "d">>,
     <<"o", "n", "e", "-", "b", "a", "s", "e", "d">>,
     <<"u", "s", "e", " ", "1", "-", "b", "a", "s", "e", "d">>,
     <<"u", "s", "e", " ", "o", "n", "e", "-", "b", "a", "s", "e", "d">>,
     <<"i", "n", "c", "r", "e", "m", "e", "n", "t", " ", "i", "n", "d", "e", "x">>,
     <<"f", "i", "x", " ", "i", "n", "d", "e", "x">>,
     <<"a", "d", "j", "u", "s", "t", " ", "i", "n", "d", "e", "x">>,
     <<"i", "n", "d", "e", "x", " ", "s", "h", "o", "u", "l", "d", " ", "b", "e", " ", "1", "-", "b", "a", "s", "e", "d">>,
     <<"s", "h", "o", "u", "l", "d", " ", "b", "e", " ", "1", "-", "b", "a", "s", "e", "d">>}

Uppers == <<"A", "B", "C", "D", "E", "F", "G", "H", "I", "J", "K", "L", "M", "N", "O", "P", "Q", "R", "S", "T", "U", "V", "W", "X", "Y", "Z">>
Lowers == <<"a", "b", "c", "d", "e", "f", "g", "h", "i", "j", "k", "l", "m", "n", "o", "p", "q", "r", "s", "t", "u", "v", "w", "x", "y", "z">>

\* str.lower(), character by character
LowerChar(c) ==
    IF \E k \in 1..Len(Uppers) : Uppers[k] = c
    THEN Lowers[CHOOSE k \in 1..Len(Uppers) : Uppers[k] = c]
    ELSE c

Lower(text) == [k \in 1..Len(text) |-> LowerChar(text[k])]

\* sub in text
Contains(text, sub) == \E i \in 1..(Len(text) + 1) : MatchAt(text, i, sub)

\* " ".join(parts)
RECURSIVE JoinSpaced(_)
JoinSpaced(parts) ==
    IF parts = <<>> THEN <<>>
    ELSE IF Len(parts) = 1 THEN parts[1]
    ELSE parts[1] \o <<" ">> \o JoinSpaced(Tail(parts))

\* str.splitlines(keepends=True)
RECURSIVE SplitLines(_)
SplitLines(text) ==
    IF text = <<>> THEN <<>>
    ELSE IF LineEnd(text, 1) > Len(text) THEN <<text>>
    ELSE <<SubSeq(text, 1, LineEnd(text, 1))>>
         \o SplitLines(SubSeq(text, LineEnd(text, 1) + 1, Len(text)))

\* index of the '#' that opens the inline comment, 0 when there is none
RECURSIVE CommentStart(_, _, _, _, _)
CommentStart(text, idx, in_single, in_double, escaped) ==
    IF idx > Len(text) THEN 0
    ELSE IF text[idx] = "\\" /\ ~escaped
    THEN CommentStart(text, idx + 1, in_single, in_double, TRUE)
    ELSE IF text[idx] = "'" /\ ~in_double /\ ~escaped
    THEN CommentStart(text, idx + 1, ~in_single, in_double, FALSE)
    ELSE IF text[idx] = "\"" /\ ~in_single /\ ~escaped
    THEN CommentStart(text, idx + 1, in_single, ~in_double, FALSE)
    ELSE IF text[idx] = "#" /\ ~in_single /\ ~in_double
    THEN idx
    ELSE CommentStart(text, idx + 1, in_single, in_double, FALSE)

SplitAtComment(text, idx) ==
    IF idx = 0 THEN [body |-> text, comment |-> None]
    ELSE [body |-> SubSeq(text, 1, idx - 1),
          comment |-> Some(SubSeq(text, idx, Len(text)))]

split_inline_comment(text) ==
    SplitAtComment(text, CommentStart(text, 1, FALSE, FALSE, FALSE))

should_adjust_from_comments(comments) ==
    \E keyword \in CONFIRMATION_KEYWORDS :
        Contains(JoinSpaced(SelectSeq([k \in 1..Len(comments) |-> Lower(Strip(comments[k]))],
                                      LAMBDA c : c # <<>>)),
                 keyword)

\* int(digits)
RECURSIVE StrToInt(_)
StrToInt(digits) ==
    IF digits = <<>> THEN 0
    ELSE 10 * StrToInt(SubSeq(digits, 1, Len(digits) - 1))
         + (CHOOSE d \in 0..9 : <<"0", "1", "2", "3", "4", "5", "6", "7", "8", "9">>[d + 1]
                                   = digits[Len(digits)])

\* str(n)
RECURSIVE IntToStr(_)
IntToStr(n) ==
    IF n < 0 THEN <<"-">> \o IntToStr(-n)
    ELSE IF n < 10 THEN <<(<<"0", "1", "2", "3", "4", "5", "6", "7", "8", "9">>)[n + 1]>>
    ELSE IntToStr(n \div 10) \o IntToStr(n % 10)

\* index of the ']' that closes the digits opened by the '[' at i, 0 when
\* what follows '[' is not digits and ']'
SubscriptEnd(body, i) ==
    IF i + 1 <= Len(body) /\ body[i + 1] \in Digits
       /\ NumberEnd(body, i + 1) <= Len(body) /\ body[NumberEnd(body, i + 1)] = "]"
    THEN NumberEnd(body, i + 1)
    ELSE 0

\* the character before i that is no whitespace, "" when there is none
PrevSignificant(body, i) ==
    IF \E p \in 1..(i - 1) : ~IsSpace(body[p])
    THEN body[CHOOSE p \in 1..(i - 1) :
                  ~IsSpace(body[p]) /\ \A q \in (p + 1)..(i - 1) : IsSpace(body[q])]
    ELSE ""

\* the '[' at i opens a subscript: it follows a name, a number, a closing
\* bracket or a dot
FollowsIndexable(prev_significant) ==
    /\ prev_significant # ""
    /\ \/ prev_significant \in Letters \cup Digits
       \/ \E k \in 1..Len(Uppers) : Uppers[k] = prev_significant
       \/ prev_significant \in {")", "]", "}", "_"}
       \/ prev_significant \in {".", "_"}

\* the subscript with its index minus one
Lowered(digits) == <<"[">> \o IntToStr(StrToInt(digits) - 1) \o <<"]">>

\* the subscript with its index plus one
Bumped(digits) == <<"[">> \o IntToStr(StrToInt(digits) + 1) \o <<"]">>

\* _adjust_indices_in_line(body), from index i on
RECURSIVE AdjustFrom(_, _, _, _)
AdjustFrom(body, i, in_single, in_double) ==
    IF i > Len(body) THEN <<>>
    ELSE IF body[i] = "'" /\ ~in_double /\ (i = 1 \/ body[i - 1] # "\\")
    THEN <<body[i]>> \o AdjustFrom(body, i + 1, ~in_single, in_double)
    ELSE IF body[i] = "\"" /\ ~in_single /\ (i = 1 \/ body[i - 1] # "\\")
    THEN <<body[i]>> \o AdjustFrom(body, i + 1, in_single, ~in_double)
    ELSE IF body[i] = "\\" /\ (in_single \/ in_double) /\ i + 1 <= Len(body)
    THEN <<body[i], body[i + 1]>> \o AdjustFrom(body, i + 2, in_single, in_double)
    ELSE IF /\ ~in_single
            /\ ~in_double
            /\ body[i] = "["
            /\ SubscriptEnd(body, i) # 0
            /\ FollowsIndexable(PrevSignificant(body, i))
    THEN Bumped(SubSeq(body, i + 1, SubscriptEnd(body, i) - 1))
         \o AdjustFrom(body, SubscriptEnd(body, i) + 1, in_single, in_double)
    ELSE <<body[i]>> \o AdjustFrom(body, i + 1, in_single, in_double)

adjust_indices_in_line(body) == AdjustFrom(body, 1, FALSE, FALSE)

\* the comment's text: without its '#', stripped
CommentText(comment) == Strip(Tail(comment))

\* the line put back together: body, inline comment, newline
Reconstructed(raw_line, split, comment_texts) ==
    IF comment_texts # <<>> /\ should_adjust_from_comments(comment_texts)
    THEN adjust_indices_in_line(split.body)
         \o (IF split.comment # None THEN Get(split.comment) ELSE <<>>)
         \o (IF EndsWith(raw_line, <<"\n">>) THEN <<"\n">> ELSE <<>>)
    ELSE raw_line

AmendSplit(raw_line, pending_comments, split) ==
    Reconstructed(raw_line, split,
                  pending_comments
                  \o (IF split.comment # None
                      THEN <<CommentText(Get(split.comment))>> ELSE <<>>))

\* a line that is no comment line
AmendLine(raw_line, pending_comments) ==
    AmendSplit(raw_line, pending_comments,
               split_inline_comment(IF EndsWith(raw_line, <<"\n">>)
                                    THEN SubSeq(raw_line, 1, Len(raw_line) - 1)
                                    ELSE raw_line))

\* the loop over the lines, from line k on
RECURSIVE BumpLines(_, _, _)
BumpLines(lines, k, pending_comments) ==
    IF k > Len(lines) THEN <<>>
    ELSE IF StartsWith(LStrip(lines[k]), <<"#">>)
    THEN lines[k]
         \o BumpLines(lines, k + 1,
                      Append(pending_comments, CommentText(LStrip(lines[k]))))
    ELSE AmendLine(lines[k], pending_comments) \o BumpLines(lines, k + 1, <<>>)

bump_indices_off_by_one(snippet) == BumpLines(SplitLines(snippet), 1, <<>>)

\* #1-based / a[0]+b[9] / x=[3]#fix index / s='[2]'#Fix index / a[1] /
\* a[-1]+c [7]#1-based / #fix
FixLines ==
    << <<"#", "1", "-", "b", "a", "s", "e", "d">>,
       <<"a", "[", "0", "]", "+", "b", "[", "9", "]">>,
       <<"x", "=", "[", "3", "]", "#", "f", "i", "x", " ", "i", "n", "d", "e", "x">>,
       <<"s", "=", "'", "[", "2", "]", "'", "#", "F", "i", "x", " ", "i", "n", "d", "e", "x">>,
       <<"a", "[", "1", "]">>,
       <<"a", "[", "-", "1", "]", "+", "c", " ", "[", "7", "]", "#", "1", "-", "b", "a", "s", "e", "d">>,
       <<"#", "f", "i", "x">> >>

FixSnippets == WithoutFinalNewline(SnippetsOf(FixLines))

\* ------------------------------------------------------------------------
\* src/src/graph.py: stub_function. FUNCTION_SINGLE_LINE_PATTERN is matched
\* by position: every quantifier of the pattern is followed by a character
\* it cannot match, so the match at a position is the one computed here.
\* ------------------------------------------------------------------------

\* index after the longest run of characters of chars that starts at i
RunEnd(text, i, chars) ==
    CHOOSE j \in i..(Len(text) + 1) :
        /\ \A k \in i..(j - 1) : text[k] \in chars
        /\ (j = Len(text) + 1 \/ text[j] \notin chars)

\* index of the first ch from i on, 0 when there is none
FirstOf(text, i, ch) ==
    IF \E k \in i..Len(text) : text[k] = ch
    THEN CHOOSE k \in i..Len(text) : text[k] = ch /\ \A j \in i..(k - 1) : text[j] # ch
    ELSE 0

Whitespace == {" ", "\n", "\t"}

AsciiLetters == {Uppers[k] : k \in 1..Len(Uppers)} \cup {Lowers[k] : k \in 1..Len(Lowers)}

K_async == <<"a", "s", "y", "n", "c">>

NoMatch == [ok |-> FALSE]

\* text[i] exists and is a whitespace character
SpaceAt(text, i) == i <= Len(text) /\ text[i] \in Whitespace

\* index of the ':' that ends the header whose ')' is before q:
\* (?P<returns>\s*->\s*[^:]+)?:   0 when the pattern does not match
HeaderColon(text, q) ==
    IF q <= Len(text) /\ text[q] = ":" THEN q
    ELSE IF MatchAt(text, RunEnd(text, q, Whitespace), <<"-", ">">>)
            /\ FirstOf(text, RunEnd(text, q, Whitespace) + 2, ":")
                  > RunEnd(text, q, Whitespace) + 2
    THEN FirstOf(text, RunEnd(text, q, Whitespace) + 2, ":")
    ELSE 0

\* the groups of the match that starts at i, after the ':' at colon
Groups(text, i, indent_end, async_end, name, name_end, close, colon) ==
    IF colon = 0 THEN NoMatch
    ELSE [ok |-> TRUE,
          indent |-> SubSeq(text, i, indent_end - 1),
          async |-> SubSeq(text, indent_end, async_end - 1),
          name |-> SubSeq(text, name, name_end - 1),
          params |-> SubSeq(text, name_end + 1, close - 1),
          returns |-> SubSeq(text, close + 1, colon - 1),
          suffix |-> SubSeq(text, colon + 1, LineEnd(text, colon + 1) - 1),
          group0 |-> SubSeq(text, i, LineEnd(text, colon + 1) - 1),
          end |-> LineEnd(text, colon + 1)]

\* \((?P<params>[^)]*)\)
AfterName(text, i, indent_end, async_end, name, name_end) ==
    IF name_end <= Len(text) /\ text[name_end] = "("
       /\ FirstOf(text, name_end + 1, ")") # 0
    THEN Groups(text, i, indent_end, async_end, name, name_end,
                FirstOf(text, name_end + 1, ")"),
                HeaderColon(text, FirstOf(text, name_end + 1, ")") + 1))
    ELSE NoMatch

\* (?P<name>[A-Za-z_][A-Za-z0-9_]*)
AfterDef(text, i, indent_end, async_end, name) ==
    IF name <= Len(text) /\ text[name] \in AsciiLetters \cup {"_"}
    THEN AfterName(text, i, indent_end, async_end, name,
                   RunEnd(text, name, AsciiLetters \cup Digits \cup {"_"}))
    ELSE NoMatch

\* def\s+
AfterAsync(text, i, indent_end, async_end) ==
    IF MatchAt(text, async_end, K_def) /\ SpaceAt(text, async_end + 3)
    THEN AfterDef(text, i, indent_end, async_end,
                  RunEnd(text, async_end + 3, Whitespace))
    ELSE NoMatch

\* (?P<async>async\s+)?
AfterIndent(text, i, indent_end) ==
    AfterAsync(text, i, indent_end,
               IF MatchAt(text, indent_end, K_async) /\ SpaceAt(text, indent_end + 5)
               THEN RunEnd(text, indent_end + 5, Whitespace)
               ELSE indent_end)

\* the match of FUNCTION_SINGLE_LINE_PATTERN that starts at i: ^(?P<indent>[ \t]*)
PatternAt(text, i) ==
    IF i = 1 \/ text[i - 1] = "\n"
    THEN AfterIndent(text, i, RunEnd(text, i, {" ", "\t"}))
    ELSE NoMatch

\* _indent_child(indent); indent is spaces and tabs only
indent_child(indent) ==
    IF indent # <<>> /\ (\E k \in 1..Len(indent) : indent[k] = "\t") /\ Strip(indent) = <<>>
    THEN indent \o <<"\t">>
    ELSE indent \o <<" ", " ", " ", " ">>

RaiseNotImplemented == <<"r", "a", "i", "s", "e", " ", "N", "o", "t", "I", "m", "p", "l", "e", "m", "e", "n", "t", "e", "d", "E", "r", "r", "o", "r", "(", ")">>

StubBodies == {K_pass, <<".", ".", ".">>, <<"E", "l", "l", "i", "p", "s", "i", "s">>}

Header(match) ==
    match.indent \o match.async \o K_def \o <<" ">> \o match.name
    \o <<"(">> \o match.params \o <<")">> \o match.returns \o <<":">>

\* _replacement(match), with the suffix split at its inline comment
ReplacementSplit(match, split) ==
    IF Strip(split.body) \notin StubBodies THEN match.group0
    ELSE Header(match) \o <<"\n">> \o indent_child(match.indent) \o RaiseNotImplemented
         \o (IF split.comment # None THEN Get(split.comment) ELSE <<>>)

replacement(match) == ReplacementSplit(match, split_inline_comment(match.suffix))

\* FUNCTION_SINGLE_LINE_PATTERN.subn(_replacement, snippet), from index i on
RECURSIVE SubnFrom(_, _), SubnMatch(_, _, _)
SubnFrom(text, i) ==
    IF i > Len(text) THEN <<>> ELSE SubnMatch(text, i, PatternAt(text, i))

SubnMatch(text, i, match) ==
    IF match.ok THEN replacement(match) \o SubnFrom(text, match.end)
    ELSE <<text[i]>> \o SubnFrom(text, i + 1)

stub_function_singleline(snippet) == SubnFrom(snippet, 1)

\* def f():pass / def  f(a): pass / def f(): /     pass /
\* async def g()->x:...#c /  def h() :pass / <tab>def k():pass
StubLines ==
    << <<"d", "e", "f", " ", "f", "(", ")", ":", "p", "a", "s", "s">>,
       <<"d", "e", "f", " ", " ", "f", "(", "a", ")", ":", " ", "p", "a", "s", "s">>,
       <<"d", "e", "f", " ", "f", "(", ")", ":">>,
       <<" ", " ", " ", " ", "p", "a", "s", "s">>,
       <<"a", "s", "y", "n", "c", " ", "d", "e", "f", " ", "g", "(", ")", "-", ">", "x", ":", ".", ".", ".", "#", "c">>,
       <<" ", "d", "e", "f", " ", "h", "(", ")", " ", ":", "p", "a", "s", "s">>,
       <<"\t", "d", "e", "f", " ", "k", "(", ")", ":", "p", "a", "s", "s">> >>

StubSnippets == WithoutFinalNewline(SnippetsOf(StubLines))

\* ------------------------------------------------------------------------
\* src/src/syntax_tools.py: fix_python_syntax
\* ------------------------------------------------------------------------

\* index after the ')' of ^\s*def\s+[A-Za-z_]\w*\s*\([^)]*\) matched from i,
\* 0 when it does not match; \s runs over newlines too
SignatureClose(text, i) ==
    LET def == RunEnd(text, i, Whitespace)
        name == RunEnd(text, def + 3, Whitespace)
        open == RunEnd(text, RunEnd(text, name, AsciiLetters \cup Digits \cup {"_"}),
                       Whitespace)
    IN  IF /\ MatchAt(text, def, K_def)
           /\ name > def + 3
           /\ name <= Len(text)
           /\ text[name] \in AsciiLetters \cup {"_"}
           /\ open <= Len(text)
           /\ text[open] = "("
           /\ FirstOf(text, open + 1, ")") # 0
        THEN FirstOf(text, open + 1, ")") + 1
        ELSE 0

\* [^:\n]+? from s: the ends it tries, shortest first
LazyEnds(text, s) ==
    [n \in 1..(RunEnd(text, s, {text[k] : k \in 1..Len(text)} \ {":", "\n"}) - s) |-> s + n]

\* \s* of the annotation from a, longest first, then the lazy part
RECURSIVE AnnotationFrom(_, _, _)
AnnotationFrom(text, a, spaces) ==
    IF spaces < 0 THEN <<>>
    ELSE LazyEnds(text, a + spaces) \o AnnotationFrom(text, a, spaces - 1)

\* (?:->\s*[^:\n]+?)? from q: the ends of the group when it takes part
AnnotationEnds(text, q) ==
    IF MatchAt(text, q, <<"-", ">">>)
    THEN AnnotationFrom(text, q + 2, RunEnd(text, q + 2, Whitespace) - (q + 2))
    ELSE <<>>

\* \s*(?:->\s*[^:\n]+?)? from p, the index after ')': the ends of
\* _FUNCTION_SIGNATURE_BASE in the order the matcher tries them
RECURSIVE BaseEndsFrom(_, _, _)
BaseEndsFrom(text, p, spaces) ==
    IF spaces < 0 THEN <<>>
    ELSE AnnotationEnds(text, p + spaces) \o <<p + spaces>>
             \o BaseEndsFrom(text, p, spaces - 1)

BaseEnds(text, p) == BaseEndsFrom(text, p, RunEnd(text, p, Whitespace) - p)

\* (\s*\n) from pos: the index after the match, 0 when there is none
NewlineTail(text, pos) ==
    LET newlines == {k \in pos..(RunEnd(text, pos, Whitespace) - 1) : text[k] = "\n"}
    IN  IF newlines = {} THEN 0
        ELSE 1 + CHOOSE k \in newlines : \A l \in newlines : l <= k

\* (\s+)(?!:)(.+) from pos: the index after the match, 0 when there is none
InlineTail(text, pos) ==
    IF \E k \in (pos + 1)..RunEnd(text, pos, Whitespace) :
          k <= Len(text) /\ text[k] \notin {":", "\n"}
    THEN LineEnd(text, pos + 1)
    ELSE 0

TailEnd(text, pos, pattern) ==
    IF pattern = "newline" THEN NewlineTail(text, pos) ELSE InlineTail(text, pos)

\* the first end of the base after which the rest of the pattern matches
RECURSIVE FirstMatch(_, _, _)
FirstMatch(text, ends, pattern) ==
    IF ends = <<>> THEN [ok |-> FALSE, base |-> 0, end |-> 0]
    ELSE IF TailEnd(text, Head(ends), pattern) # 0
    THEN [ok |-> TRUE, base |-> Head(ends), end |-> TailEnd(text, Head(ends), pattern)]
    ELSE FirstMatch(text, Tail(ends), pattern)

\* the match of _FUNCTION_NEWLINE_PATTERN / _FUNCTION_INLINE_PATTERN at i
ColonMatch(text, i, pattern) ==
    IF (i = 1 \/ text[i - 1] = "\n") /\ SignatureClose(text, i) # 0
    THEN FirstMatch(text, BaseEnds(text, SignatureClose(text, i)), pattern)
    ELSE [ok |-> FALSE, base |-> 0, end |-> 0]

\* _newline_replacer / _inline_replacer: signature.rstrip(), ':', the other groups
ColonReplacement(text, i, m) ==
    RStrip(SubSeq(text, i, m.base - 1)) \o <<":">> \o SubSeq(text, m.base, m.end - 1)

\* pattern.sub(replacer, text) from index i on
RECURSIVE SubColons(_, _, _)
SubStep(text, i, pattern, m) ==
    IF m.ok THEN ColonReplacement(text, i, m) \o SubColons(text, m.end, pattern)
    ELSE <<text[i]>> \o SubColons(text, i + 1, pattern)

SubColons(text, i, pattern) ==
    IF i > Len(text) THEN <<>>
    ELSE SubStep(text, i, pattern, ColonMatch(text, i, pattern))

\* _add_missing_function_colons(snippet)
add_missing_function_colons(snippet) ==
    SubColons(SubColons(snippet, 1, "newline"), 1, "inline")

\* if fixed_snippet.endswith("\n"): fixed_snippet = fixed_snippet[:-1]
DropFinalNewline(text) ==
    IF EndsWith(text, <<"\n">>) THEN SubSeq(text, 1, Len(text) - 1) ELSE text

fix_python_syntax(snippet) == DropFinalNewline(add_missing_function_colons(snippet))

\* def f(a): / def h(a) / def g(a) return a / def f(a) -> x: return a /
\*     return a / def k() -> x: / x = 1
SyntaxLines ==
    << <<"d", "e", "f", " ", "f", "(", "a", ")", ":">>,
       <<"d", "e", "f", " ", "h", "(", "a", ")">>,
       <<"d", "e", "f", " ", "g", "(", "a", ")", " ", "r", "e", "t", "u", "r", "n", " ", "a">>,
       <<"d", "e", "f", " ", "f", "(", "a", ")", " ", "-", ">", " ", "x", ":", " ",
         "r", "e", "t", "u", "r", "n", " ", "a">>,
       <<" ", " ", " ", " ", "r", "e", "t", "u", "r", "n", " ", "a">>,
       <<"d", "e", "f", " ", "k", "(", ")", " ", "-", ">", " ", "x", ":">>,
       <<"x", " ", "=", " ", "1">> >>

SyntaxSnippets == WithoutFinalNewline(SnippetsOf(SyntaxLines))

\* ------------------------------------------------------------------------
\* The runtime zero-division scan (detect_runtime_issues), after spec.md:
\* the tests import it from src.graph, which does not define it
\* ------------------------------------------------------------------------

\* a node of the tree ast.parse gives: its class, its operator or the type of
\* its constant, its text, its lineno and col_offset, its child nodes in order
Node(kind, op, value, line, col, children) ==
    [kind |-> kind, op |-> op, value |-> value, line |-> line, col |-> col,
     children |-> children]

Num(digits, line, col) == Node("Constant", "int", digits, line, col, <<>>)

Bool(word, line, col) == Node("Constant", "bool", word, line, col, <<>>)

NameNode(id, line, col) == Node("Name", "", id, line, col, <<>>)

BinOp(left, op, right) == Node("BinOp", op, <<>>, left.line, left.col, <<left, right>>)

\* v = <value>
Assign(value) ==
    Node("Assign", "", <<>>, value.line, 0, <<NameNode(<<"v">>, value.line, 0), value>>)

\* if c: <body>, the if on the line above the body
IfNode(body) ==
    Node("If", "", <<>>, body.line - 1, 0, <<NameNode(<<"c">>, body.line - 1, 3), body>>)

Module(body) == Node("Module", "", <<>>, 0, 0, body)

DivisionOps == {"/", "//", "%"}

\* the message of a finding, keyed by operator
ZeroMessage(op) ==
    IF op = "/" THEN "Detected division by zero."
    ELSE IF op = "//" THEN "Detected floor division by zero."
    ELSE "Detected modulo by zero."

\* the value of a constant: False is 0 and True is 1
ConstantValue(node) ==
    IF node.op = "bool"
    THEN (IF node.value = <<"F", "a", "l", "s", "e">> THEN 0 ELSE 1)
    ELSE StrToInt(node.value)

\* a fold that does not see a boolean as a number
RECURSIVE StaticValueNoBool(_)
StaticValueNoBool(node) ==
    IF node.kind = "Constant" /\ node.op = "int" THEN Some(StrToInt(node.value))
    ELSE IF node.kind = "BinOp" /\ node.op \in {"+", "-", "*"}
            /\ StaticValueNoBool(node.children[1]) # None
            /\ StaticValueNoBool(node.children[2]) # None
    THEN Some(IF node.op = "+"
              THEN Get(StaticValueNoBool(node.children[1]))
                       + Get(StaticValueNoBool(node.children[2]))
              ELSE IF node.op = "-"
              THEN Get(StaticValueNoBool(node.children[1]))
                       - Get(StaticValueNoBool(node.children[2]))
              ELSE Get(StaticValueNoBool(node.children[1]))
                       * Get(StaticValueNoBool(node.children[2])))
    ELSE None

\* the static value of an expression: a constant, or +, -, * of static
\* values; None when the expression has a name or another operator
RECURSIVE StaticValue(_)
StaticValue(node) ==
    IF node.kind = "Constant" THEN Some(ConstantValue(node))
    ELSE IF node.kind = "BinOp" /\ node.op \in {"+", "-", "*"}
            /\ StaticValue(node.children[1]) # None
            /\ StaticValue(node.children[2]) # None
    THEN Some(IF node.op = "+"
              THEN Get(StaticValue(node.children[1])) + Get(StaticValue(node.children[2]))
              ELSE IF node.op = "-"
              THEN Get(StaticValue(node.children[1])) - Get(StaticValue(node.children[2]))
              ELSE Get(StaticValue(node.children[1])) * Get(StaticValue(node.children[2])))
    ELSE None

\* ast.walk(tree): breadth first, the children of a node in their order
RECURSIVE Walk(_)
Walk(queue) ==
    IF queue = <<>> THEN <<>>
    ELSE <<Head(queue)>> \o Walk(Tail(queue) \o Head(queue).children)

\* the node is a division whose right operand is statically 0
DividesByZero(node) ==
    /\ node.kind = "BinOp"
    /\ node.op \in DivisionOps
    /\ StaticValue(node.children[2]) = Some(0)

\* RuntimeIssue{issueType, message, line, column}
RuntimeIssue(node) ==
    [issue_type |-> "ZeroDivisionError", message |-> ZeroMessage(node.op),
     lineno |-> node.line, col_offset |-> node.col]

\* a comes before b by line, then by column
Precedes(a, b) ==
    a.lineno < b.lineno \/ (a.lineno = b.lineno /\ a.col_offset < b.col_offset)

\* sorted(issues, key=(lineno, col_offset)): stable
RECURSIVE InsertIssue(_, _)
InsertIssue(issue, sorted) ==
    IF sorted = <<>> THEN <<issue>>
    ELSE IF Precedes(issue, Head(sorted)) THEN <<issue>> \o sorted
    ELSE <<Head(sorted)>> \o InsertIssue(issue, Tail(sorted))

RECURSIVE SortIssues(_)
SortIssues(issues) ==
    IF issues = <<>> THEN <<>>
    ELSE InsertIssue(issues[Len(issues)], SortIssues(SubSeq(issues, 1, Len(issues) - 1)))

\* the findings in the order the walk meets them
IssuesOf(nodes) ==
    [k \in 1..Len(SelectSeq(nodes, DividesByZero)) |->
        RuntimeIssue(SelectSeq(nodes, DividesByZero)[k])]

\* detect_runtime_issues(snippet), on the tree of the snippet
detect_runtime_issues(tree) == SortIssues(IssuesOf(Walk(<<tree>>)))

\* the operands at (line, col) that are 0: 0 / False / (3 - 3) / (2 * 0)
ZeroOperands(line, col) ==
    { Num(<<"0">>, line, col),
      Bool(<<"F", "a", "l", "s", "e">>, line, col),
      BinOp(Num(<<"3">>, line, col + 1), "-", Num(<<"3">>, line, col + 5)),
      BinOp(Num(<<"2">>, line, col + 1), "*", Num(<<"0">>, line, col + 5)) }

\* the operands that are not: 2 / True / x / (3 - 2) / (0 + x) / (0 // 2)
OtherOperands(line, col) ==
    { Num(<<"2">>, line, col),
      Bool(<<"T", "r", "u", "e">>, line, col),
      NameNode(<<"x">>, line, col),
      BinOp(Num(<<"3">>, line, col + 1), "-", Num(<<"2">>, line, col + 5)),
      BinOp(Num(<<"0">>, line, col + 1), "+", NameNode(<<"x">>, line, col + 5)) }

\* v = 10 <op> <operand>, and v = 1 / 0 / <operand>: two divisions at one column
StatementsAt(line) ==
    { Assign(BinOp(Num(<<"1", "0">>, line, 4), op, right)) :
        op \in DivisionOps \cup {"-"},
        right \in ZeroOperands(line, 9) \cup OtherOperands(line, 9) }
    \cup
    { Assign(BinOp(BinOp(Num(<<"1">>, line, 4), "/", Num(<<"0">>, line, 8)), "/", right)) :
        right \in ZeroOperands(line, 12) \cup OtherOperands(line, 12) }

\* a module of no, one or two statements, the first of two under an if
ScanTrees ==
    {Module(<<>>)}
    \cup {Module(<<s>>) : s \in StatementsAt(1)}
    \cup {Module(<<IfNode(s), v>>) :
            s \in StatementsAt(2),
            v \in {Assign(BinOp(Num(<<"3">>, 3, 4), "%", Num(<<"0">>, 3, 8))),
                   Assign(BinOp(Num(<<"3">>, 3, 4), "%", Num(<<"2">>, 3, 8)))}}

\* ------------------------------------------------------------------------
\* src/src/memory.py: PersistentChatMessageHistory and its JSON file
\* ------------------------------------------------------------------------

\* the messages one history holds
MaxMessages == 2

\* "" / default / a/b / a_b / c
PersistIds ==
    { <<>>, <<"d", "e", "f", "a", "u", "l", "t">>, <<"a", "/", "b">>,
      <<"a", "_", "b">>, <<"c">> }

\* the characters re.sub(r"[^a-zA-Z0-9_.-]", "_", ...) keeps
SafeChars == AsciiLetters \cup Digits \cup {"_", ".", "-"}

\* _sanitize_session_id(session_id)
sanitize_session_id(session_id) ==
    IF session_id = <<>> THEN <<"d", "e", "f", "a", "u", "l", "t">>
    ELSE [k \in 1..Len(session_id) |->
             IF session_id[k] \in SafeChars THEN session_id[k] ELSE "_"]

\* self._session_id = session_id or "default"
SessionIdOf(session_id) ==
    IF session_id = <<>> THEN <<"d", "e", "f", "a", "u", "l", "t">> ELSE session_id

\* self._storage_dir / f"{sanitized}.json", as the name inside the directory
FilePath(session_id) ==
    sanitize_session_id(SessionIdOf(session_id)) \o <<".", "j", "s", "o", "n">>

\* Path.with_suffix(".tmp"): the name up to its last dot, then .tmp
with_suffix_tmp(path) ==
    SubSeq(path, 1,
           (CHOOSE k \in 1..Len(path) :
               path[k] = "." /\ \A l \in (k + 1)..Len(path) : path[l] # ".") - 1)
        \o <<".", "t", "m", "p">>

StoragePaths ==
    {FilePath(s) : s \in PersistIds} \cup {with_suffix_tmp(FilePath(s)) : s \in PersistIds}

\* a HumanMessage and an AIMessage
ChatMessages ==
    { [type |-> "human", content |-> "hello"], [type |-> "ai", content |-> "hi there"] }

\* the "type" values messages_from_dict knows
MessageTypes == {"human", "ai", "system", "chat", "function", "tool"}

\* the dict of a message: its "type" and "data" keys (None: key absent)
MessageDict(type, data) == [type |-> type, data |-> data]

message_to_dict(message) == MessageDict(Some(message.type), Some(message.content))

\* messages_to_dict(messages)
messages_to_dict(messages) ==
    [k \in 1..Len(messages) |-> message_to_dict(messages[k])]

\* what message["type"] / message["data"] of one dict ends with
DictError(dict) ==
    IF dict.type = None THEN Some("KeyError")
    ELSE IF Get(dict.type) \notin MessageTypes THEN Some("ValueError")
    ELSE IF dict.data = None THEN Some("KeyError")
    ELSE None

message_from_dict(dict) == [type |-> Get(dict.type), content |-> Get(dict.data)]

\* a file's content: what opening and parsing it gives
\*   unreadable    open() raises OSError
\*   invalid_json  json.load raises JSONDecodeError
\*   object        the JSON text of an object, not of a list
\*   list          the JSON text of a list of items
FileContent(kind, items) == [kind |-> kind, items |-> items]

\* json.dump(payload, file, ensure_ascii=False, indent=2)
json_dump(payload) == FileContent("list", payload)

\* {this is not valid json} / {"a": 1} / [{}] / [{"type": "x", "data": ..}] /
\* [{"type": "human"}] / a file that cannot be opened
CorruptContents ==
    { FileContent("invalid_json", <<>>),
      FileContent("object", <<>>),
      FileContent("list", <<MessageDict(None, None)>>),
      FileContent("list", <<MessageDict(Some("x"), Some("hello"))>>),
      FileContent("list", <<MessageDict(Some("human"), None)>>),
      FileContent("unreadable", <<>>) }

\* the history of one message, saved by an earlier run
SavedContents ==
    { json_dump(messages_to_dict(<<m>>)) : m \in ChatMessages }

\* the result of _load: the messages, or the exception that leaves it
Loaded(messages, raised) == [messages |-> messages, raised |-> raised]

\* the exceptions _load catches
CaughtByLoad == {"JSONDecodeError", "OSError", "TypeError", "ValueError"}

\* messages_from_dict(data): the first item that fails ends the comprehension
FromItems(items) ==
    IF \E k \in 1..Len(items) : DictError(items[k]) # None
    THEN Loaded(<<>>,
                DictError(items[CHOOSE k \in 1..Len(items) :
                                    /\ DictError(items[k]) # None
                                    /\ \A l \in 1..(k - 1) : DictError(items[l]) = None]))
    ELSE Loaded([k \in 1..Len(items) |-> message_from_dict(items[k])], None)

\* the body of the try of _load on a file that exists
TryLoad(content) ==
    IF content.kind = "unreadable" THEN Loaded(<<>>, Some("OSError"))
    ELSE IF content.kind = "invalid_json" THEN Loaded(<<>>, Some("JSONDecodeError"))
    ELSE IF content.kind = "object" THEN Loaded(<<>>, Some("TypeError"))
    ELSE FromItems(content.items)

\* except (json.JSONDecodeError, OSError, TypeError, ValueError): an exception
\* of the tuple resets to the empty history, any other leaves _load
Except(loaded) ==
    IF loaded.raised # None /\ Get(loaded.raised) \in CaughtByLoad
    THEN Loaded(<<>>, None)
    ELSE loaded

\* PersistentChatMessageHistory._load, on the file found (None: no file)
load(found) ==
    IF found = None THEN Loaded(<<>>, None) ELSE Except(TryLoad(Get(found)))

\* a slot no PersistentChatMessageHistory has been constructed in
NoHistory ==
    [live |-> FALSE, session_id |-> <<>>, file_path |-> <<>>,
     messages |-> <<>>, lock |-> None]

\* PersistentChatMessageHistory.__init__ after _load returned
NewHistory(session_id, messages) ==
    [live |-> TRUE, session_id |-> SessionIdOf(session_id),
     file_path |-> FilePath(session_id), messages |-> messages, lock |-> None]

\* what a method does to self._messages
\*   add_message: append, add_messages: extend, clear: = []
Mutated(messages, op, arg) == IF op = "clear" THEN <<>> ELSE messages \o arg

\* a replace that removes the temporary file and leaves the target as it was
replace_keeps_target(fs, tmp, path) == [fs EXCEPT ![tmp] = None]

\* tmp_path.replace(self._file_path)
replace(fs, tmp, path) == [fs EXCEPT ![path] = fs[tmp], ![tmp] = None]

\* a thread outside the methods of a history
IdleWorker == [pc |-> "idle", history |-> 0, op |-> "", arg |-> <<>>]

Sessions == {1, 2}

\* the names a program binds PersistentChatMessageHistory objects to
Histories == {1, 2}

\* ------------------------------------------------------------------------
\* The state machine: sessions call the module-level registry functions and
\* the editor tools; every call is recorded with what it returned.
\* ------------------------------------------------------------------------

\* ------------------------------------------------------------------------
\* src/src/graph.py: StructuredLoggingAgent, the wrapper that logs each run
\* ------------------------------------------------------------------------

\* the most chunks the wrapped runnable's iterator yields in one run
MaxChunks == 2

\* run_id = str(uuid.uuid4()): every run has an id of its own
RunIds == {1, 2}

StreamChunks == {"x", "y"}

\* the methods that call the wrapped runnable once and return its result
CallModes == {"invoke", "ainvoke", "batch", "abatch"}

\* the generator methods
StreamModes == {"stream", "astream"}

\* a run not begun; done: "returned" (the result, or the iterator's end),
\* "raised" (an exception left the method), "closed" (the consumer closed
\* the generator at a yield)
NewRun == [mode |-> "none", pc |-> "new", chunks |-> <<>>, done |-> "none"]

\* _structured_log(event, run_id=run_id, ...): one more record in the log
structured_log(log, event, run_id, chunk) ==
    Append(log, [event |-> event, run_id |-> run_id, chunk |-> chunk])

\* what the wrapped runnable does when called or asked for the next chunk;
\* it raises subclasses of Exception only
CallOutcomes == {"return", "raise"}

\* try: result = self._runnable.invoke(...) / except Exception: log
\* agent_run_error, raise / log agent_run_end, return result
AfterCall(log, run_id, outcome) ==
    IF outcome = "raise"
    THEN [log |-> structured_log(log, "agent_run_error", run_id, ""), done |-> "raised"]
    ELSE [log |-> structured_log(log, "agent_run_end", run_id, ""), done |-> "returned"]

\* a thread outside the registry's methods, calls: the calls it has made
IdleCaller(calls) ==
    [pc |-> "idle", op |-> "none", snippet |-> None, force |-> FALSE,
     identifiers |-> None, calls |-> calls]

\* raised is the exception the call ended with: none of the functions
\* called has a raise statement, every call returns
Call(session, op, args, ret) ==
    [session |-> session, op |-> op, args |-> args, ret |-> ret, raised |-> None]

NoCall == Call(0, "init", <<>>, None)

Init ==
    /\ baseline = None
    /\ original_snippet = None
    /\ call = NoCall
    /\ state = EmptyState
    /\ history_cache = [key \in HistoryKeys |-> None]
    /\ cache_lock = None
    /\ instances = <<>>
    /\ threads = [thread \in Sessions |-> Idle(0)]
    /\ returned = {}
    /\ files = [path \in StoragePaths |-> None]
    /\ histories = [h \in Histories |-> NoHistory]
    /\ workers = [worker \in Sessions |-> IdleWorker]
    /\ added = {}
    /\ registry_lock = None
    /\ callers = [thread \in Sessions |-> IdleCaller(0)]
    /\ agent_log = <<>>
    /\ agent_runs = [run \in RunIds |-> NewRun]

\* get_protected_registry(): the one module-level _registry, whoever asks
get_protected_registry(session) ==
    [baseline |-> baseline, original_snippet |-> original_snippet]

\* register_snippet(snippet) / get_protected_registry().register(snippet, force=...)
RegisterSnippet(session) ==
    \E snippet \in RegistrySnippets, force \in BOOLEAN :
        \E r \in {register(get_protected_registry(session).baseline,
                           get_protected_registry(session).original_snippet,
                           snippet, force)} :
            /\ baseline' = r.baseline
            /\ original_snippet' = r.original_snippet
            /\ UNCHANGED <<state, memory_vars, rest_vars>>
            /\ call' = Call(session, "register",
                            [snippet |-> snippet, force |-> force], r.ret)

\* ensure_registry(snippet)
EnsureRegistry(session) ==
    \E snippet \in {Some(s) : s \in RegistrySnippets} \cup {None} :
        \E r \in {ensure(get_protected_registry(session).baseline,
                         get_protected_registry(session).original_snippet,
                         snippet)} :
            /\ baseline' = r.baseline
            /\ original_snippet' = r.original_snippet
            /\ UNCHANGED <<state, memory_vars, rest_vars>>
            /\ call' = Call(session, "ensure", [snippet |-> snippet], r.ret)

\* validate_against_registry(snippet)
ValidateAgainstRegistry(session) ==
    \E snippet \in RegistrySnippets :
        LET reg == get_protected_registry(session)
        IN  /\ call' = Call(session, "validate", [snippet |-> snippet],
                            validate(reg.baseline, snippet))
            /\ UNCHANGED <<baseline, original_snippet, state, memory_vars, rest_vars>>

IsProtected(session) ==
    \E name \in ProbeNames :
        LET reg == get_protected_registry(session)
        IN  /\ call' = Call(session, "is_protected", [name |-> name],
                            is_protected(reg.baseline, name))
            /\ UNCHANGED <<baseline, original_snippet, state, memory_vars, rest_vars>>

Initialized(session) ==
    LET reg == get_protected_registry(session)
    IN  /\ call' = Call(session, "initialized", <<>>, initialized(reg.baseline))
        /\ UNCHANGED <<baseline, original_snippet, state, memory_vars, rest_vars>>

Reset(session) ==
    \E r \in {reset(get_protected_registry(session).baseline,
                    get_protected_registry(session).original_snippet)} :
        /\ baseline' = r.baseline
        /\ original_snippet' = r.original_snippet
        /\ UNCHANGED <<state, memory_vars, rest_vars>>
        /\ call' = Call(session, "reset",
                        [armed |-> initialized(get_protected_registry(session).baseline)],
                        r.ret)

\* the add_import tool: the text is returned as the editor built it
AddImport(session, snippets, modules) ==
    \E snippet \in snippets, module \in modules :
        /\ call' = Call(session, "add_import",
                        [snippet |-> snippet, module |-> module, repeat |-> 0],
                        add_import_buggy(snippet, module))
        /\ UNCHANGED <<baseline, original_snippet, state, memory_vars, rest_vars>>

\* the rename_symbol tool
RenameSymbol(session, snippets, olds, news) ==
    \E snippet \in snippets, old \in olds, new \in news :
        /\ call' = Call(session, "rename_symbol",
                        [snippet |-> snippet, old |-> old, new |-> new],
                        rename_first_occurrence(snippet, old, new))
        /\ UNCHANGED <<baseline, original_snippet, state, memory_vars, rest_vars>>

Next ==
    \E session \in Sessions :
        \/ RegisterSnippet(session)
        \/ EnsureRegistry(session)
        \/ ValidateAgainstRegistry(session)
        \/ IsProtected(session)
        \/ Initialized(session)
        \/ Reset(session)
        \/ AddImport(session, RegistrySnippets, GuardModules)
        \/ RenameSymbol(session, RegistrySnippets, GuardOlds, GuardNews)

Spec == Init /\ [][Next]_vars

\* add_import called on the result of the add_import before, same module
AddImportAgain(session) ==
    /\ call.op = "add_import"
    /\ call.args.repeat < MaxRepeat
    /\ call' = Call(session, "add_import",
                    [snippet |-> call.ret, module |-> call.args.module,
                     repeat |-> call.args.repeat + 1],
                    add_import_buggy(call.ret, call.args.module))
    /\ UNCHANGED <<baseline, original_snippet, state, memory_vars, rest_vars>>

\* the add_import tool alone, over texts with the preamble it has to respect
NextAddImport ==
    \E session \in Sessions :
        \/ AddImport(session, AddImportSnippets, AddImportModules)
        \/ AddImportAgain(session)

SpecAddImport == Init /\ [][NextAddImport]_vars

\* collect_protected_identifiers(snippet)
CollectIdentifiers(session) ==
    \E snippet \in CollectSnippets :
        /\ call' = Call(session, "collect", [snippet |-> snippet],
                        collect_protected_identifiers(snippet))
        /\ UNCHANGED <<baseline, original_snippet, state, memory_vars, rest_vars>>

\* the collector alone, over guards with else and elif branches
NextCollect == \E session \in Sessions : CollectIdentifiers(session)

SpecCollect == Init /\ [][NextCollect]_vars

\* the fix_indexing tool
FixIndexing(session) ==
    \E snippet \in FixSnippets :
        /\ call' = Call(session, "fix_indexing", [snippet |-> snippet],
                        bump_indices_off_by_one(snippet))
        /\ UNCHANGED <<baseline, original_snippet, state, memory_vars, rest_vars>>

\* the fix_indexing tool alone, over lines with and without confirming comments
NextFixIndexing == \E session \in Sessions : FixIndexing(session)

SpecFixIndexing == Init /\ [][NextFixIndexing]_vars

\* the stub_function tool
StubFunction(session) ==
    \E snippet \in StubSnippets :
        /\ call' = Call(session, "stub_function", [snippet |-> snippet],
                        stub_function_singleline(snippet))
        /\ UNCHANGED <<baseline, original_snippet, state, memory_vars, rest_vars>>

\* the stub_function tool alone, over single-line and block definitions
NextStubFunction == \E session \in Sessions : StubFunction(session)

SpecStubFunction == Init /\ [][NextStubFunction]_vars

\* the caller writes state["snippet"]
SetSnippet(session) ==
    \E snippet \in StateSnippets :
        /\ state' = [state EXCEPT !.snippet = Some(snippet)]
        /\ call' = Call(session, "set_snippet", [snippet |-> snippet], None)
        /\ UNCHANGED <<baseline, original_snippet, memory_vars, rest_vars>>

\* get_protected_registry().update_from_state(state)
UpdateFromState(session) ==
    \E r \in {update_from_state(get_protected_registry(session).baseline,
                                get_protected_registry(session).original_snippet,
                                state)} :
        /\ baseline' = r.baseline
        /\ original_snippet' = r.original_snippet
        /\ state' = r.state
        /\ call' = Call(session, "update_from_state", [state |-> state], r.ret)
        /\ UNCHANGED <<memory_vars, rest_vars>>

\* store_protected_identifiers(state) / store_protected_identifiers(state, snippet)
StoreProtectedIdentifiers(session) ==
    \E snippet \in {Some(s) : s \in StateSnippets} \cup {None} :
        \E r \in {store_protected_identifiers(state, snippet)} :
            /\ state' = r.state
            /\ call' = Call(session, "store_protected_identifiers",
                            [state |-> state, snippet |-> snippet], r.ret)
            /\ UNCHANGED <<baseline, original_snippet, memory_vars, rest_vars>>

\* one state dict whose snippet changes between the calls that snapshot it
NextState ==
    \E session \in Sessions :
        \/ SetSnippet(session)
        \/ UpdateFromState(session)
        \/ StoreProtectedIdentifiers(session)

SpecState == Init /\ [][NextState]_vars

\* every method of the registry, called in any order by any session on the
\* one module-level registry; each method body runs under self._lock, so the
\* calls take effect one at a time, and get_protected_registry() hands every
\* caller the same object: who calls makes no difference to the fields
NextRegistry ==
    \E session \in {1} :
        \/ RegisterSnippet(session)
        \/ EnsureRegistry(session)
        \/ SetSnippet(session)
        \/ UpdateFromState(session)
        \/ ValidateAgainstRegistry(session)
        \/ IsProtected(session)
        \/ Reset(session)

SpecRegistry == Init /\ [][NextRegistry]_vars

\* register(snippet, force=...) is entered by a thread
RegisterEnter(thread, snippets, forces) ==
    /\ callers[thread].pc = "idle"
    /\ callers[thread].calls < MaxCalls
    /\ \E snippet \in snippets, force \in forces :
           callers' = [callers EXCEPT ![thread] =
                          [@ EXCEPT !.pc = "collect", !.op = "register",
                                    !.snippet = Some(snippet), !.force = force]]
    /\ UNCHANGED <<baseline, original_snippet, call, state, memory_vars,
                   store_vars, agent_vars, registry_lock>>

\* identifiers = collect_protected_identifiers(snippet), before the lock
RegisterCollect(thread) ==
    /\ callers[thread].pc = "collect"
    /\ callers' = [callers EXCEPT ![thread] =
                      [@ EXCEPT !.pc = "acquire",
                                !.identifiers =
                                    Some(collect_protected_identifiers(
                                        Get(callers[thread].snippet)))]]
    /\ UNCHANGED <<baseline, original_snippet, call, state, memory_vars,
                   store_vars, agent_vars, registry_lock>>

\* ensure(snippet) is entered by a thread
EnsureEnter(thread, snippets) ==
    /\ callers[thread].pc = "idle"
    /\ callers[thread].calls < MaxCalls
    /\ \E snippet \in {Some(s) : s \in snippets} \cup {None} :
           callers' = [callers EXCEPT ![thread] =
                          [@ EXCEPT !.pc = "acquire", !.op = "ensure",
                                    !.snippet = snippet]]
    /\ UNCHANGED <<baseline, original_snippet, call, state, memory_vars,
                   store_vars, agent_vars, registry_lock>>

\* with self._lock: the thread waits until no thread holds the lock
AcquireRegistryLock(thread) ==
    /\ callers[thread].pc = "acquire"
    /\ LockFree(registry_lock)
    /\ registry_lock' = Some(thread)
    /\ callers' = [callers EXCEPT ![thread].pc = "test"]
    /\ UNCHANGED <<baseline, original_snippet, call, state, memory_vars, store_vars, agent_vars>>

\* if force or self._baseline is None / if self._baseline is None and snippet
TestBaseline(thread) ==
    /\ callers[thread].pc = "test"
    /\ callers' = [callers EXCEPT ![thread].pc =
                      IF Unarmed(callers[thread], baseline)
                      THEN "set_baseline" ELSE "return"]
    /\ UNCHANGED <<baseline, original_snippet, call, state, memory_vars,
                   store_vars, agent_vars, registry_lock>>

\* self._baseline = identifiers / collect_protected_identifiers(snippet)
SetBaseline(thread) ==
    /\ callers[thread].pc = "set_baseline"
    /\ baseline' = Some(IF callers[thread].op = "register"
                        THEN Get(callers[thread].identifiers)
                        ELSE collect_protected_identifiers(Get(callers[thread].snippet)))
    /\ callers' = [callers EXCEPT ![thread].pc = "set_original"]
    /\ UNCHANGED <<original_snippet, call, state, memory_vars, store_vars, agent_vars,
                   registry_lock>>

\* self.original_snippet = snippet
SetOriginalSnippet(thread) ==
    /\ callers[thread].pc = "set_original"
    /\ original_snippet' = callers[thread].snippet
    /\ callers' = [callers EXCEPT ![thread].pc = "return"]
    /\ UNCHANGED <<baseline, call, state, memory_vars, store_vars, agent_vars, registry_lock>>

\* return self._baseline or identifiers / ProtectedIdentifiers(); the with
\* block ends and the lock is released
ReturnBaseline(thread) ==
    /\ callers[thread].pc = "return"
    /\ call' = Call(thread, callers[thread].op,
                    IF callers[thread].op = "register"
                    THEN [snippet |-> Get(callers[thread].snippet),
                          force |-> callers[thread].force]
                    ELSE [snippet |-> callers[thread].snippet],
                    Fallback(callers[thread], baseline))
    /\ registry_lock' = None
    /\ callers' = [callers EXCEPT ![thread] = IdleCaller(@.calls + 1)]
    /\ UNCHANGED <<baseline, original_snippet, state, memory_vars, store_vars, agent_vars>>

\* threads that call register without force, and ensure, on the registry as
\* it is constructed
NextRace ==
    \E thread \in Sessions :
        \/ RegisterEnter(thread, StateSnippets, {FALSE})
        \/ RegisterCollect(thread)
        \/ EnsureEnter(thread, StateSnippets)
        \/ AcquireRegistryLock(thread)
        \/ TestBaseline(thread)
        \/ SetBaseline(thread)
        \/ SetOriginalSnippet(thread)
        \/ ReturnBaseline(thread)

SpecRace == Init /\ [][NextRace]_vars

\* a run method is entered (for stream and astream: the generator is started
\* by its first next()): agent_run_start is logged
BeginRun(run) ==
    /\ agent_runs[run].pc = "new"
    /\ \E mode \in CallModes \cup StreamModes :
           agent_runs' = [agent_runs EXCEPT ![run] =
                             [@ EXCEPT !.mode = mode, !.pc = "started"]]
    /\ agent_log' = structured_log(agent_log, "agent_run_start", run, "")
    /\ UNCHANGED <<baseline, original_snippet, call, state, memory_vars,
                   store_vars, lock_vars>>

\* invoke, ainvoke, batch, abatch: the wrapped runnable is called inside try
CallWrapped(run) ==
    /\ agent_runs[run].pc = "started"
    /\ agent_runs[run].mode \in CallModes
    /\ \E outcome \in CallOutcomes :
           \E r \in {AfterCall(agent_log, run, outcome)} :
               /\ agent_log' = r.log
               /\ agent_runs' = [agent_runs EXCEPT ![run] =
                                     [@ EXCEPT !.pc = "done", !.done = r.done]]
    /\ UNCHANGED <<baseline, original_snippet, call, state, memory_vars,
                   store_vars, lock_vars>>

\* stream, astream: iterator = stream_method(input, ...), before the try; a
\* wrapped method that raises when called takes the exception out of the
\* generator
OpenStream(run) ==
    /\ agent_runs[run].pc = "started"
    /\ agent_runs[run].mode \in StreamModes
    /\ \E outcome \in CallOutcomes :
           agent_runs' = [agent_runs EXCEPT ![run] =
                             IF outcome = "raise"
                             THEN [@ EXCEPT !.pc = "done", !.done = "raised"]
                             ELSE [@ EXCEPT !.pc = "iterating"]]
    /\ UNCHANGED <<baseline, original_snippet, call, state, memory_vars,
                   store_vars, lock_vars, agent_log>>

\* for chunk in iterator: the iterator yields a chunk, which is logged and
\* yielded on
YieldChunk(run) ==
    /\ agent_runs[run].pc = "iterating"
    /\ Len(agent_runs[run].chunks) < MaxChunks
    /\ \E chunk \in StreamChunks :
           /\ agent_log' = structured_log(agent_log, "agent_stream_chunk", run, chunk)
           /\ agent_runs' = [agent_runs EXCEPT ![run] =
                                 [@ EXCEPT !.pc = "suspended",
                                           !.chunks = Append(@, chunk)]]
    /\ UNCHANGED <<baseline, original_snippet, call, state, memory_vars,
                   store_vars, lock_vars>>

\* for chunk in iterator: the iterator ends (agent_run_end after the loop)
\* or raises (except Exception: agent_run_error, raise)
EndStream(run) ==
    /\ agent_runs[run].pc = "iterating"
    /\ \E outcome \in CallOutcomes :
           \E r \in {AfterCall(agent_log, run, outcome)} :
               /\ agent_log' = r.log
               /\ agent_runs' = [agent_runs EXCEPT ![run] =
                                     [@ EXCEPT !.pc = "done", !.done = r.done]]
    /\ UNCHANGED <<baseline, original_snippet, call, state, memory_vars,
                   store_vars, lock_vars>>

\* the consumer asks for the next chunk: the generator goes on after yield
ResumeStream(run) ==
    /\ agent_runs[run].pc = "suspended"
    /\ agent_runs' = [agent_runs EXCEPT ![run].pc = "iterating"]
    /\ UNCHANGED <<baseline, original_snippet, call, state, memory_vars,
                   store_vars, lock_vars, agent_log>>

\* the consumer stops reading (break, close(), the generator collected):
\* GeneratorExit is raised at the yield; it is not an Exception, the except
\* clause lets it pass and the line after the loop is not reached
CloseStream(run) ==
    /\ agent_runs[run].pc = "suspended"
    /\ agent_runs' = [agent_runs EXCEPT ![run] =
                          [@ EXCEPT !.pc = "done", !.done = "closed"]]
    /\ UNCHANGED <<baseline, original_snippet, call, state, memory_vars,
                   store_vars, lock_vars, agent_log>>

\* runs of the agent, each in one of the six modes, their steps interleaved
NextAgent ==
    \E run \in RunIds :
        \/ BeginRun(run)
        \/ CallWrapped(run)
        \/ OpenStream(run)
        \/ YieldChunk(run)
        \/ EndStream(run)
        \/ ResumeStream(run)
        \/ CloseStream(run)

SpecAgent == Init /\ [][NextAgent]_vars

\* get_history(session_id) is entered: key = session_id or "default"
GetHistory(thread) ==
    /\ threads[thread].pc = "idle"
    /\ threads[thread].calls < MaxCalls
    /\ \E session_id \in SessionIds :
        threads' = [threads EXCEPT ![thread] =
                       [pc |-> "acquire", session_id |-> session_id,
                        key |-> HistoryKey(session_id), history |-> None,
                        calls |-> @.calls + 1]]
    /\ UNCHANGED <<baseline, original_snippet, call, state, rest_vars,
                   history_cache, cache_lock, instances, returned>>

\* with _cache_lock: __enter__
AcquireCacheLock(thread) ==
    /\ threads[thread].pc = "acquire"
    /\ CanAcquire(cache_lock)
    /\ cache_lock' = Some(thread)
    /\ threads' = [threads EXCEPT ![thread].pc = "get"]
    /\ UNCHANGED <<baseline, original_snippet, call, state, rest_vars,
                   history_cache, instances, returned>>

\* history = _history_cache.get(key); if history is None
CacheGet(thread) ==
    /\ threads[thread].pc = "get"
    /\ threads' = [threads EXCEPT
                      ![thread].history = history_cache[threads[thread].key],
                      ![thread].pc = IF history_cache[threads[thread].key] = None
                                     THEN "construct" ELSE "release"]
    /\ UNCHANGED <<baseline, original_snippet, call, state, rest_vars,
                   history_cache, cache_lock, instances, returned>>

\* history = PersistentChatMessageHistory(key)
Construct(thread) ==
    /\ threads[thread].pc = "construct"
    /\ instances' = Append(instances, threads[thread].key)
    /\ threads' = [threads EXCEPT ![thread].history = Some(Len(instances) + 1),
                                  ![thread].pc = "store"]
    /\ UNCHANGED <<baseline, original_snippet, call, state, rest_vars,
                   history_cache, cache_lock, returned>>

\* _history_cache[key] = history
CacheStore(thread) ==
    /\ threads[thread].pc = "store"
    /\ history_cache' = [history_cache EXCEPT
                            ![threads[thread].key] = threads[thread].history]
    /\ threads' = [threads EXCEPT ![thread].pc = "release"]
    /\ UNCHANGED <<baseline, original_snippet, call, state, rest_vars,
                   cache_lock, instances, returned>>

\* with _cache_lock: __exit__
ReleaseCacheLock(thread) ==
    /\ threads[thread].pc = "release"
    /\ cache_lock' = None
    /\ threads' = [threads EXCEPT ![thread].pc = "return"]
    /\ UNCHANGED <<baseline, original_snippet, call, state, rest_vars,
                   history_cache, instances, returned>>

\* return history
ReturnHistory(thread) ==
    /\ threads[thread].pc = "return"
    /\ returned' = returned \cup
           {<<threads[thread].session_id, Get(threads[thread].history)>>}
    /\ call' = Call(thread, "get_history",
                    [session_id |-> threads[thread].session_id],
                    Get(threads[thread].history))
    /\ threads' = [threads EXCEPT ![thread] = Idle(@.calls)]
    /\ UNCHANGED <<baseline, original_snippet, state, rest_vars,
                   history_cache, cache_lock, instances>>

\* threads calling get_history, interleaved statement by statement
NextHistory ==
    \E thread \in Sessions :
        \/ GetHistory(thread)
        \/ AcquireCacheLock(thread)
        \/ CacheGet(thread)
        \/ Construct(thread)
        \/ CacheStore(thread)
        \/ ReleaseCacheLock(thread)
        \/ ReturnHistory(thread)

SpecHistory == Init /\ [][NextHistory]_vars

\* the variables the methods of a history leave alone
store_frame == <<baseline, original_snippet, state, memory_vars, lock_vars, agent_vars>>

\* the call ended with the exception exc
Raise(c, exc) == [c EXCEPT !.raised = Some(exc)]

\* a thread is inside a method of history h
InUse(h) == \E worker \in Sessions : workers[worker].pc # "idle" /\ workers[worker].history = h

\* a file is left in the storage directory by an earlier run: history_file.write_text(...)
PlantFile(worker) ==
    /\ \A h \in Histories : ~histories[h].live
    /\ \A path \in StoragePaths : files[path] = None
    /\ \E session_id \in PersistIds, content \in CorruptContents \cup SavedContents :
          /\ files' = [files EXCEPT ![FilePath(session_id)] = Some(content)]
          /\ call' = Call(worker, "write_text",
                          [path |-> FilePath(session_id), content |-> content], None)
    /\ UNCHANGED <<store_frame, histories, workers, added>>

\* h = PersistentChatMessageHistory(session_id, storage_dir)
ConstructHistory(worker, h, session_id) ==
    /\ workers[worker].pc = "idle"
    /\ ~InUse(h)
    /\ \E r \in {load(files[FilePath(session_id)])} :
          /\ histories' = IF r.raised = None
                          THEN [histories EXCEPT ![h] = NewHistory(session_id, r.messages)]
                          ELSE histories
          /\ call' = [Call(worker, "construct",
                           [history |-> h, session_id |-> session_id,
                            found |-> files[FilePath(session_id)]], None)
                         EXCEPT !.raised = r.raised]
    /\ UNCHANGED <<store_frame, files, workers, added>>

HistoryOps == {"add_message", "add_messages", "clear"}

\* the argument a method is called with, as the list of messages it brings
ArgsOf(op, messages) ==
    IF op = "add_message" THEN {<<m>> : m \in messages}
    ELSE IF op = "add_messages"
    THEN {<<>>} \cup {<<m>> : m \in messages}
               \cup {<<m, n>> : m \in messages, n \in messages}
    ELSE {<<>>}

\* a method of history h is called; add_messages([]) returns at once
BeginCall(worker, hs, ops, messages) ==
    /\ workers[worker].pc = "idle"
    /\ \E h \in hs, op \in ops :
          /\ histories[h].live
          /\ \E arg \in ArgsOf(op, messages) :
                /\ Len(histories[h].messages) + Len(arg) <= MaxMessages
                /\ IF op = "add_messages" /\ arg = <<>>
                   THEN /\ call' = Call(worker, op, [history |-> h, messages |-> arg], None)
                        /\ UNCHANGED workers
                   ELSE /\ workers' = [workers EXCEPT ![worker] =
                                          [pc |-> "lock", history |-> h, op |-> op, arg |-> arg]]
                        /\ UNCHANGED call
    /\ UNCHANGED <<store_frame, files, histories, added>>

\* with self._lock: __enter__
AcquireLock(worker) ==
    /\ workers[worker].pc = "lock"
    /\ histories[workers[worker].history].lock = None
    /\ histories' = [histories EXCEPT ![workers[worker].history].lock = Some(worker)]
    /\ workers' = [workers EXCEPT ![worker].pc = "mutate"]
    /\ UNCHANGED <<store_frame, call, files, added>>

\* self._messages.append(message) / .extend(messages) / = []
Mutate(worker) ==
    /\ workers[worker].pc = "mutate"
    /\ histories' = [histories EXCEPT ![workers[worker].history].messages =
                        Mutated(@, workers[worker].op, workers[worker].arg)]
    /\ workers' = [workers EXCEPT ![worker].pc = "dump"]
    /\ UNCHANGED <<store_frame, call, files, added>>

\* _save_locked: the payload is written to the temporary file
Dump(worker) ==
    /\ workers[worker].pc = "dump"
    /\ files' = [files EXCEPT
                    ![with_suffix_tmp(histories[workers[worker].history].file_path)] =
                        Some(json_dump(messages_to_dict(
                                 histories[workers[worker].history].messages)))]
    /\ workers' = [workers EXCEPT ![worker].pc = "replace"]
    /\ UNCHANGED <<store_frame, call, histories, added>>

\* _save_locked: tmp_path.replace(self._file_path), which raises
\* FileNotFoundError when the temporary file is gone; the with block is left
Replace(worker) ==
    /\ workers[worker].pc = "replace"
    /\ \E h \in {workers[worker].history} :
          /\ IF files[with_suffix_tmp(histories[h].file_path)] = None
             THEN /\ call' = Raise(Call(worker, workers[worker].op,
                                        [history |-> h, messages |-> workers[worker].arg],
                                        None), "FileNotFoundError")
                  /\ UNCHANGED <<files, added>>
             ELSE /\ files' = replace(files, with_suffix_tmp(histories[h].file_path),
                                      histories[h].file_path)
                  /\ call' = Call(worker, workers[worker].op,
                                  [history |-> h, messages |-> workers[worker].arg], None)
                  /\ added' = added \cup
                         {<<histories[h].session_id, workers[worker].arg[k]>> :
                              k \in 1..Len(workers[worker].arg)}
          /\ histories' = [histories EXCEPT ![h].lock = None]
    /\ workers' = [workers EXCEPT ![worker] = IdleWorker]
    /\ UNCHANGED store_frame

\* one program: a history is constructed, perhaps over a file an earlier run
\* left, its methods are called, and the history is loaded again
NextPersist ==
    \/ PlantFile(1)
    \/ \E session_id \in PersistIds :
          ~histories[1].live /\ ConstructHistory(1, 1, session_id)
    \/ BeginCall(1, {1}, HistoryOps, ChatMessages)
    \/ AcquireLock(1)
    \/ Mutate(1)
    \/ Dump(1)
    \/ Replace(1)
    \/ histories[1].live /\ ConstructHistory(1, 2, histories[1].session_id)

SpecPersist == Init /\ [][NextPersist]_vars

\* a/b / a_b / c
SharedIds == { <<"a", "/", "b">>, <<"a", "_", "b">>, <<"c">> }

\* the message a thread adds: thread 1 the human's, thread 2 the AI's
MessageOf(worker) ==
    IF worker = 1 THEN [type |-> "human", content |-> "hello"]
    ELSE [type |-> "ai", content |-> "hi there"]

\* two threads, two histories: each thread adds its message to either
NextSessions ==
    \E worker \in Sessions :
        \/ \E h \in Histories, session_id \in SharedIds :
              ~histories[h].live /\ ConstructHistory(worker, h, session_id)
        \/ BeginCall(worker, Histories, {"add_message"}, {MessageOf(worker)})
        \/ AcquireLock(worker)
        \/ Mutate(worker)
        \/ Dump(worker)
        \/ Replace(worker)

SpecSessions == Init /\ [][NextSessions]_vars

\* the fix_python_syntax tool
FixPythonSyntax(session) ==
    \E snippet \in SyntaxSnippets :
        /\ call' = Call(session, "fix_python_syntax", [snippet |-> snippet],
                        fix_python_syntax(snippet))
        /\ UNCHANGED <<baseline, original_snippet, state, memory_vars, rest_vars>>

\* the fix_python_syntax tool alone, over definitions with and without the colon
NextFixPythonSyntax == \E session \in Sessions : FixPythonSyntax(session)

SpecFixPythonSyntax == Init /\ [][NextFixPythonSyntax]_vars

\* detect_runtime_issues(snippet)
DetectRuntimeIssues(session) ==
    \E tree \in ScanTrees :
        /\ call' = Call(session, "detect_runtime_issues", [tree |-> tree],
                        detect_runtime_issues(tree))
        /\ UNCHANGED <<baseline, original_snippet, state, memory_vars, rest_vars>>

\* the zero-division scan alone
NextScan == \E session \in Sessions : DetectRuntimeIssues(session)

SpecScan == Init /\ [][NextScan]_vars

\* the rename_symbol tool alone, over texts with substrings, strings,
\* attributes and an unclosed bracket
NextRename ==
    \E session \in Sessions :
        RenameSymbol(session, RenameSnippets, RenameOlds, RenameNews)

SpecRename == Init /\ [][NextRename]_vars

\* ------------------------------------------------------------------------
\* Properties of the registry (specification Spec)
\* ------------------------------------------------------------------------

\* the call the step records is a call that cannot move an armed baseline
KeepsBaseline(c) ==
    \/ c.op \in {"ensure", "is_protected", "validate", "initialized"}
    \/ c.op = "register" /\ ~c.args.force

\* the step arms the registry with the snippet of the call it records
ArmsWith(snippet) ==
    /\ baseline' = Some(Collect(snippet))
    /\ original_snippet' = Some(snippet)

\* C1  Frozen baseline: the first register(s0), or ensure(s0) with a
\* non-empty s0, on a registry without baseline makes the baseline
\* collect(s0) and the original snippet s0; while there is a baseline,
\* register without force, ensure, is_protected and validate, whatever their
\* argument, leave the baseline and the original snippet as they are.
FrozenBaseline ==
    [][/\ (baseline = None /\ call'.op = "register")
            => ArmsWith(call'.args.snippet)
       /\ (baseline = None /\ call'.op = "ensure" /\ Truthy(call'.args.snippet))
            => ArmsWith(Get(call'.args.snippet))
       /\ (baseline # None /\ KeepsBaseline(call'))
            => UNCHANGED <<baseline, original_snippet>>]_vars

\* a register without force of another snippet, with other identifiers, has
\* returned the baseline and left it and the original snippet in place
FrozenBaselineWitness ==
    /\ call.op = "register"
    /\ ~call.args.force
    /\ baseline # None
    /\ original_snippet # Some(call.args.snippet)
    /\ Collect(call.args.snippet) # Get(baseline)
    /\ Get(baseline) = Collect(Get(original_snippet))
    /\ call.ret = Get(baseline)

\* C2  While the registry has a baseline, no editor hands back a text whose
\* diff against the baseline is non-empty.
EditorsGuarded ==
    (call.op \in {"add_import", "rename_symbol"} /\ baseline # None)
        => validate(baseline, call.ret) = {}

\* the names of one category
CategoryOf(ids, category) ==
    CASE category = "function" -> ids.functions
      [] category = "class" -> ids.classes
      [] category = "call" -> ids.calls
      [] category = "entry-point" -> ids.entry_points

Categories == {"function", "class", "call", "entry-point"}

\* C3  Violation completeness: validate(t) against the baseline B reports,
\* category by category, exactly the names of B's category that are not in
\* the same category of collect(t), and nothing else; the snippet the
\* baseline was collected from has no violation.
ViolationCompleteness ==
    /\ (call.op = "validate" /\ baseline # None) =>
          /\ \A category \in Categories :
                {v[2] : v \in {w \in call.ret : w[1] = category}}
                    = CategoryOf(Get(baseline), category)
                        \ CategoryOf(Collect(call.args.snippet), category)
          /\ \A v \in call.ret : v[1] \in Categories
    /\ baseline # None => validate(baseline, Get(original_snippet)) = {}

\* a validate has reported a function and an entry point of the baseline
\* that the validated snippet has lost
ViolationCompletenessWitness ==
    /\ call.op = "validate"
    /\ baseline # None
    /\ \E v \in call.ret : v[1] = "function" /\ v[2] \in Get(baseline).functions
    /\ \E v \in call.ret : v[1] = "entry-point"

\* C4  reset() leaves the registry without baseline and without original
\* snippet; in that state initialized() and is_protected(n) answer false,
\* validate(s) is empty, and the next snippet registered becomes the
\* baseline as a first snippet does.
ResetClears ==
    [][/\ call'.op = "reset" => baseline' = None /\ original_snippet' = None
       /\ (call.op = "reset" /\ call'.op \in {"initialized", "is_protected"})
            => call'.ret = FALSE
       /\ (call.op = "reset" /\ call'.op = "validate") => call'.ret = {}
       /\ (call.op = "reset" /\ call'.op = "register")
            => ArmsWith(call'.args.snippet)
               /\ call'.ret = Collect(call'.args.snippet)]_vars

\* a reset of a registry that had a baseline has cleared both fields
ResetClearsWitness ==
    /\ call.op = "reset"
    /\ call.args.armed
    /\ baseline = None
    /\ original_snippet = None

\* C5  Sessions are independent: a call made for one session changes
\* neither the baseline nor the original snippet that another session gets
\* from its registry.
SessionsIndependent ==
    [][\A other \in Sessions :
          call'.session # other
              => get_protected_registry(other)' = get_protected_registry(other)]_vars

\* ------------------------------------------------------------------------
\* Properties of add_import (specification SpecAddImport)
\* ------------------------------------------------------------------------

\* line is one of the lines of text
HasLine(text, line) ==
    \E i \in 1..(Len(text) + 1) :
        /\ MatchAt(text, i, line)
        /\ (i = 1 \/ text[i - 1] = "\n")
        /\ (i + Len(line) > Len(text) \/ text[i + Len(line)] = "\n")

\* C6  add_import is idempotent: add_import of a text that add_import has
\* returned for the same module, and of any text that already has the line
\* `import m`, returns that text unchanged.
AddImportIdempotent ==
    (/\ call.op = "add_import"
     /\ \/ call.args.repeat > 0
        \/ HasLine(call.args.snippet, ImportLine(call.args.module)))
        => call.ret = call.args.snippet

\* the line of text that starts at index i, without its newline
LineAt(text, i) == SubSeq(text, i, LineEnd(text, i) - 1)

\* the index of the line after the one that starts at i
AfterLine(text, i) ==
    IF LineEnd(text, i) > Len(text) THEN Len(text) + 1 ELSE LineEnd(text, i) + 1

IsShebang(line) == StartsWith(line, <<"#", "!">>)

IsEncodingComment(line) ==
    /\ StartsWith(line, <<"#">>)
    /\ \E i \in 1..Len(line) :
          MatchAt(line, i, <<"c", "o", "d", "i", "n", "g", ":">>)
          \/ MatchAt(line, i, <<"c", "o", "d", "i", "n", "g", "=">>)

IsDocstring(line) == StartsWith(line, <<"'", "'", "'">>) /\ Len(line) >= 6
                     /\ EndsWith(line, <<"'", "'", "'">>)

IsBlank(line) == Strip(line) = <<>>

IsImport(line) == StartsWith(line, K_import \o <<" ">>)

LineIs(line, kind) ==
    CASE kind = "shebang" -> IsShebang(line)
      [] kind = "encoding" -> IsEncodingComment(line)
      [] kind = "docstring" -> IsDocstring(line)
      [] kind = "blank" -> IsBlank(line)
      [] kind = "import" -> IsImport(line)

\* the index after the lines of that kind from i on
RECURSIVE SkipLines(_, _, _)
SkipLines(text, i, kind) ==
    IF i <= Len(text) /\ LineIs(LineAt(text, i), kind)
    THEN SkipLines(text, AfterLine(text, i), kind)
    ELSE i

SkipOne(text, i, kind) ==
    IF i <= Len(text) /\ LineIs(LineAt(text, i), kind) THEN AfterLine(text, i) ELSE i

\* the index after the shebang line, the encoding comment and the one-line
\* docstring that open the text
AfterHeader(text) ==
    SkipOne(text, SkipOne(text, SkipOne(text, 1, "shebang"), "encoding"), "docstring")

\* the index where the claim has the import line go: after the header, the
\* blank lines behind it and the import block that follows them
InsertionIndex(text) ==
    SkipLines(text, SkipLines(text, AfterHeader(text), "blank"), "import")

\* C7  add_import puts the import line below a leading shebang line,
\* encoding comment and module docstring, and below the import block that
\* follows them: the text up to there is still the head of the result.
ImportBelowPreamble ==
    call.op = "add_import"
        => /\ StartsWith(call.ret,
                         SubSeq(call.args.snippet, 1,
                                AfterHeader(call.args.snippet) - 1))
           /\ (IsImport(LineAt(call.args.snippet,
                               SkipLines(call.args.snippet,
                                         AfterHeader(call.args.snippet), "blank")))
                 => StartsWith(call.ret,
                               SubSeq(call.args.snippet, 1,
                                      InsertionIndex(call.args.snippet) - 1)))

\* the characters of part, in their order, are characters of whole
RECURSIVE IsSubsequence(_, _)
IsSubsequence(part, whole) ==
    IF part = <<>> THEN TRUE
    ELSE IF whole = <<>> THEN FALSE
    ELSE IF Head(part) = Head(whole) THEN IsSubsequence(Tail(part), Tail(whole))
    ELSE IsSubsequence(part, Tail(whole))

\* C8  add_import keeps the final newline as it was: for every snippet, the
\* empty one included, the result ends with a newline exactly when the
\* snippet does, and no character of the snippet is dropped.
TrailingNewlinePreserved ==
    call.op = "add_import"
        => /\ EndsWith(call.ret, <<"\n">>) <=> EndsWith(call.args.snippet, <<"\n">>)
           /\ IsSubsequence(call.args.snippet, call.ret)

\* ------------------------------------------------------------------------
\* Properties of rename_symbol (specification SpecRename)
\* ------------------------------------------------------------------------

\* the piece before piece k that is not whitespace, 0 when there is none
Before(toks, k) ==
    IF \E j \in 1..(k - 1) : toks[j].type # "WS"
    THEN CHOOSE j \in 1..(k - 1) :
            /\ toks[j].type # "WS"
            /\ \A m \in (j + 1)..(k - 1) : toks[m].type = "WS"
    ELSE 0

IsAttribute(toks, k) ==
    Before(toks, k) # 0 /\ IsOp(toks[Before(toks, k)], <<".">>)

\* text from index i on is the pieces from k on, where a NAME piece equal to
\* old may read new instead (an attribute only if attributes is TRUE), and
\* every other piece reads as it did
RECURSIVE Renamed(_, _, _, _, _, _, _)
Renamed(toks, k, text, i, old, new, attributes) ==
    IF k > Len(toks) THEN i = Len(text) + 1
    ELSE \/ /\ MatchAt(text, i, toks[k].string)
            /\ Renamed(toks, k + 1, text, i + Len(toks[k].string), old, new, attributes)
         \/ /\ toks[k].type = "NAME"
            /\ toks[k].string = old
            /\ attributes \/ ~IsAttribute(toks, k)
            /\ MatchAt(text, i, new)
            /\ Renamed(toks, k + 1, text, i + Len(new), old, new, attributes)

\* C9  Rename precision: whatever the snippet, old and new, the result is
\* the snippet with some whole NAME tokens equal to old replaced: no
\* identifier that only contains old, and no string literal, reads
\* differently.
RenamePrecision ==
    call.op = "rename_symbol"
        => Renamed(generate_tokens(call.args.snippet).toks, 1, call.ret, 1,
                   call.args.old, call.args.new, TRUE)

\* C10  rename_symbol leaves attribute access alone: where old and new are
\* identifiers and the snippet tokenizes, a NAME token equal to old right
\* behind a `.` reads as before, and only the other NAME tokens equal to
\* old may have been renamed.
AttributeExcluded ==
    (/\ call.op = "rename_symbol"
     /\ IsIdentifier(call.args.old)
     /\ IsIdentifier(call.args.new)
     /\ generate_tokens(call.args.snippet).ok)
        => Renamed(generate_tokens(call.args.snippet).toks, 1, call.ret, 1,
                   call.args.old, call.args.new, FALSE)

\* ------------------------------------------------------------------------
\* Properties of the guarded rename and of forbids
\* ------------------------------------------------------------------------

\* C11  While the registry has a baseline that forbids old, rename_symbol
\* raises ProtectedIdentifierViolation instead of returning a text.
RenameRefusesProtected ==
    (/\ call.op = "rename_symbol"
     /\ baseline # None
     /\ is_protected(baseline, call.args.old))
        => call.raised = Some("ProtectedIdentifierViolation")

\* C16  No best-effort result: a rename that cannot go over the tokens,
\* because old or new is no identifier or the snippet does not tokenize,
\* ends with an error and returns no text made another way.
NoBestEffort ==
    (/\ call.op = "rename_symbol"
     /\ call.args.old # <<>>
     /\ call.args.old # call.args.new
     /\ \/ ~IsIdentifier(call.args.old)
        \/ ~IsIdentifier(call.args.new)
        \/ ~generate_tokens(IF EndsWith(call.args.snippet, <<"\n">>)
                            THEN call.args.snippet
                            ELSE call.args.snippet \o <<"\n">>).ok)
        => call.raised # None

\* the text before the first '.'
BaseSegment(name) ==
    IF \E k \in 1..Len(name) : name[k] = "."
    THEN SubSeq(name, 1, (CHOOSE k \in 1..Len(name) :
                            /\ name[k] = "."
                            /\ \A j \in 1..(k - 1) : name[j] # ".") - 1)
    ELSE name

Forbidden(ids, name) ==
    /\ name # <<>>
    /\ \/ BaseSegment(name) \in ids.functions \cup ids.classes \cup ids.entry_points
       \/ \E recorded \in ids.calls :
             name = recorded \/ BaseSegment(name) = BaseSegment(recorded)

\* C18  forbids(name) is true exactly when name is non-empty and its base
\* segment is a protected function, class or entry point, or name matches
\* a recorded call in full or by base segment; every identifier of the
\* baseline is forbidden by it, and without baseline is_protected is false.
ForbidsExactly ==
    /\ call.op = "is_protected" =>
          call.ret = (baseline # None /\ Forbidden(Get(baseline), call.args.name))
    /\ baseline # None =>
          \A identifier \in all_identifiers(Get(baseline)) :
              forbids(Get(baseline), identifier)

\* is_protected has answered true for a name that is no identifier of the
\* baseline: it shares its base segment with a recorded call
ForbidsExactlyWitness ==
    /\ call.op = "is_protected"
    /\ baseline # None
    /\ call.ret = TRUE
    /\ call.args.name \notin all_identifiers(Get(baseline))
    /\ \E recorded \in Get(baseline).calls :
          BaseSegment(recorded) = call.args.name /\ recorded # call.args.name

\* ------------------------------------------------------------------------
\* Properties of the collector (specification SpecCollect)
\* ------------------------------------------------------------------------

LinesOf(snippet) == LogicalLines(Significant(generate_tokens(snippet).toks))

\* the tokens of a line in which calls are written: all but a def or class header
CallTokens(t) ==
    IF IsKw(t[1], K_def) THEN SubSeq(t, 6, Len(t))
    ELSE IF IsKw(t[1], K_class) THEN SubSeq(t, 4, Len(t))
    ELSE t

\* the line is an if or elif whose condition is the __main__ guard
IsGuardLine(t) ==
    /\ IsKw(t[1], K_if) \/ IsKw(t[1], K_elif)
    /\ is_dunder_main_guard(SubSeq(t, 2, ColonIndex(t) - 1))

EveryCall(lines) == UNION {CallsIn(CallTokens(lines[k])) : k \in 1..Len(lines)}

GuardBodyCalls(lines) ==
    UNION {CallsIn(SubSeq(lines[k], ColonIndex(lines[k]) + 1, Len(lines[k]))) :
              k \in {l \in 1..Len(lines) : IsGuardLine(lines[l])}}

\* C17  collect records as entry points exactly the calls made in the body
\* of an `if __name__ == '__main__':` guard, under their base segment, not
\* the calls of its else or elif branch nor the calls outside a guard, and
\* records every call of the snippet in calls under its dotted name.
EntryPointsExactly ==
    (call.op = "collect" /\ ast_parse(call.args.snippet) # SyntaxError)
        => /\ call.ret.entry_points
                = {BaseSegment(callee) :
                      callee \in GuardBodyCalls(LinesOf(call.args.snippet))}
           /\ call.ret.calls = EveryCall(LinesOf(call.args.snippet))

\* ------------------------------------------------------------------------
\* Properties of fix_indexing (specification SpecFixIndexing)
\* ------------------------------------------------------------------------

\* the numbers written as [N] in text from index i on, in order
RECURSIVE BracketLiterals(_, _)
BracketLiterals(text, i) ==
    IF i > Len(text) THEN <<>>
    ELSE IF text[i] = "[" /\ SubscriptEnd(text, i) # 0
    THEN <<SubSeq(text, i + 1, SubscriptEnd(text, i) - 1)>>
         \o BracketLiterals(text, SubscriptEnd(text, i) + 1)
    ELSE BracketLiterals(text, i + 1)

\* C12  fix_indexing changes at most one bracketed numeric literal per
\* call and leaves every other one as it was.
AtMostOneSubscript ==
    call.op = "fix_indexing"
        => /\ Len(BracketLiterals(call.ret, 1))
                = Len(BracketLiterals(call.args.snippet, 1))
           /\ Cardinality({k \in 1..Len(BracketLiterals(call.ret, 1)) :
                  BracketLiterals(call.ret, 1)[k]
                      # BracketLiterals(call.args.snippet, 1)[k]}) <= 1

\* the places of text where a negative number is written as a subscript
NegativeSubscripts(text) ==
    {i \in 1..Len(text) :
        /\ MatchAt(text, i, <<"[", "-">>)
        /\ i + 2 <= Len(text)
        /\ text[i + 2] \in Digits}

SinglePass(line) ==
    /\ PatternAt(line, 1).ok
    /\ Strip(split_inline_comment(PatternAt(line, 1).suffix).body) = K_pass

\* the signature of a one-line definition: the line up to the header's colon
SignatureText(line) ==
    SubSeq(line, 1, PatternAt(line, 1).end - 1 - Len(PatternAt(line, 1).suffix))

\* C14  Signature preservation: for every definition that stub_function
\* stubs, the result has the signature text, keyword spacing included,
\* character for character as the snippet has it.
SignaturePreserved ==
    call.op = "stub_function"
        => \A k \in 1..Len(SplitLines(call.args.snippet)) :
              SinglePass(SplitLines(call.args.snippet)[k])
                  => HasLine(call.ret, SignatureText(SplitLines(call.args.snippet)[k]))

\* line k is a definition header and line k + 1, indented, is a single pass
BlockPass(lines, k) ==
    /\ k + 1 <= Len(lines)
    /\ PatternAt(lines[k], 1).ok
    /\ Strip(PatternAt(lines[k], 1).suffix) = <<>>
    /\ Strip(lines[k + 1]) = K_pass
    /\ Len(LStrip(lines[k + 1])) < Len(lines[k + 1])

\* the number of definitions of the text whose body is a single pass
PassBodies(lines) ==
    Cardinality({k \in 1..Len(lines) : SinglePass(lines[k]) \/ BlockPass(lines, k)})

RaiseLines(lines) ==
    Cardinality({k \in 1..Len(lines) : StartsWith(LStrip(lines[k]), RaiseNotImplemented)})

\* C15  stub_function replaces a body that is a single pass in the
\* one-line form and in the block form: the result has no such body left
\* and has a `raise NotImplementedError()` line for each.
StubsBothForms ==
    call.op = "stub_function"
        => /\ PassBodies(SplitLines(call.ret)) = 0
           /\ RaiseLines(SplitLines(call.ret))
                 >= PassBodies(SplitLines(call.args.snippet))

\* ------------------------------------------------------------------------
\* Properties of the snapshot on a state dict (specification SpecState)
\* ------------------------------------------------------------------------

SnapshotCalls == {"update_from_state", "store_protected_identifiers"}

\* C19  The snapshot kept on a state is the one of the first snippet
\* observed: after a call of update_from_state or store_protected_identifiers
\* on a state that has an original snippet and a registry that has a baseline,
\* state['protected_identifiers'] is collect(state['original_snippet']) and is
\* the registry's baseline, and update_from_state returns that baseline.
SnapshotKept ==
    (/\ call.op \in SnapshotCalls
     /\ Truthy(state.original_snippet)
     /\ initialized(baseline))
        => /\ state.protected_identifiers =
                  Some(collect_protected_identifiers(Get(state.original_snippet)))
           /\ state.protected_identifiers = baseline
           /\ call.op = "update_from_state" => call.ret = Get(baseline)

\* ------------------------------------------------------------------------
\* Properties of the history cache (specification SpecHistory)
\* ------------------------------------------------------------------------

\* the instances constructed with key
InstancesOf(key) == {i \in 1..Len(instances) : instances[i] = key}

\* C20  get_history returns the same instance for two calls exactly when their
\* keys (session_id or "default") are the same, and under every interleaving
\* of the callers at most one instance is constructed for a key and the cache
\* holds that instance.
OneInstancePerKey ==
    /\ \A a, b \in returned :
          (HistoryKey(a[1]) = HistoryKey(b[1])) <=> (a[2] = b[2])
    /\ \A key \in HistoryKeys :
          /\ Cardinality(InstancesOf(key)) <= 1
          /\ history_cache[key] # None => Get(history_cache[key]) \in InstancesOf(key)

\* two callers that were inside get_history together hold one instance
OneInstancePerKeyWitness ==
    \E t, u \in Sessions :
        /\ t # u
        /\ threads[t].pc = "return"
        /\ threads[u].pc = "return"
        /\ threads[t].history = threads[u].history

\* C20 as stated: the same instance for the same session id, different
\* instances for different session ids, at most one instance per session id.
OneInstancePerSessionId ==
    /\ \A a, b \in returned : (a[1] = b[1]) <=> (a[2] = b[2])
    /\ \A session_id \in SessionIds :
          Cardinality(InstancesOf(HistoryKey(session_id))) <= 1

\* ------------------------------------------------------------------------
\* Properties of the histories on disk (specifications SpecPersist, SpecSessions)
\* ------------------------------------------------------------------------

\* no thread is inside a method: the last call recorded is the last step taken
Quiet == \A worker \in Sessions : workers[worker].pc = "idle"

\* the call that has just returned constructed history h
Constructed(h) == call.op = "construct" /\ call.args.history = h

\* C21  Persistence round trip: after any sequence of add_message,
\* add_messages and clear calls on a history, a history constructed anew for
\* the same session id holds exactly the messages of the first, in the same
\* order; after clear both are empty and the file holds the empty list.
RoundTrip ==
    /\ (Quiet /\ Constructed(2))
          => /\ call.raised = None
             /\ histories[2].messages = histories[1].messages
    /\ (Quiet /\ call.op = "clear")
          => /\ histories[call.args.history].messages = <<>>
             /\ files[histories[call.args.history].file_path] = Some(json_dump(<<>>))

\* two different messages were added and the history loaded anew has both, in order
RoundTripWitness ==
    /\ Quiet
    /\ Constructed(2)
    /\ Len(histories[2].messages) = 2
    /\ histories[2].messages[1] # histories[2].messages[2]
    /\ \A k \in 1..2 : <<histories[1].session_id, histories[1].messages[k]>> \in added

\* C22  Constructing a history over a corrupt or unreadable file does not
\* raise: the history starts empty and the file is left as it was; the first
\* add_message after it persists a valid file holding exactly that message.
CorruptFileHandled ==
    /\ (/\ call.op = "construct"
        /\ call.args.found # None
        /\ Get(call.args.found) \in CorruptContents)
          => /\ call.raised = None
             /\ histories[call.args.history].live
             /\ histories[call.args.history].messages = <<>>
             /\ files[FilePath(call.args.session_id)] = call.args.found
    /\ (/\ Quiet
        /\ call.op = "add_message"
        /\ Len(histories[call.args.history].messages) = 1)
          => files[histories[call.args.history].file_path] =
                 Some(json_dump(messages_to_dict(call.args.messages)))

\* the messages added, or being added, under session_id
Contributed(session_id) ==
    {m \in ChatMessages : <<session_id, m>> \in added}
        \cup {workers[w].arg[1] : w \in {v \in Sessions :
                 /\ workers[v].pc # "idle"
                 /\ histories[workers[v].history].session_id = session_id}}

\* C23  Each session id has its own file: two histories of different session
\* ids never have the same file path, and a history constructed for a session
\* id holds only messages added under that session id.
DedicatedFiles ==
    /\ \A h, g \in Histories :
          (/\ histories[h].live
           /\ histories[g].live
           /\ histories[h].session_id # histories[g].session_id)
              => histories[h].file_path # histories[g].file_path
    /\ \A h \in Histories :
          (Constructed(h) /\ call.raised = None)
              => \A k \in 1..Len(histories[h].messages) :
                    histories[h].messages[k] \in Contributed(histories[h].session_id)

\* no history of another session id has the file of session_id
Dedicated(session_id) ==
    \A h \in Histories :
        (histories[h].live /\ histories[h].file_path = FilePath(session_id))
            => histories[h].session_id = session_id

\* the messages of the file of session_id
Persisted(session_id) ==
    IF files[FilePath(session_id)] = None THEN {}
    ELSE {message_from_dict(Get(files[FilePath(session_id)]).items[k]) :
              k \in 1..Len(Get(files[FilePath(session_id)]).items)}

\* C29  No lost update: once the threads adding messages to the histories of
\* one session id, through one instance or through two, have returned, the
\* file of the session holds every message added.
NoLostUpdate ==
    Quiet
        => \A session_id \in SharedIds :
              Dedicated(session_id)
                  => \A m \in ChatMessages :
                        <<session_id, m>> \in added => m \in Persisted(session_id)

\* ------------------------------------------------------------------------
\* Properties of fix_python_syntax (specification SpecFixPythonSyntax)
\* ------------------------------------------------------------------------

\* the line is a function definition
IsDefLine(line) == StartsWith(LStrip(line), K_def \o <<" ">>)

\* after the ')' of the line comes ':', or '->' and an annotation ended by ':'
SignatureHasColon(line) ==
    /\ FirstOf(line, 1, ")") # 0
    /\ \E rest \in {Strip(SubSeq(line, FirstOf(line, 1, ")") + 1, Len(line)))} :
          \/ StartsWith(rest, <<":">>)
          \/ StartsWith(rest, <<"-", ">">>) /\ FirstOf(rest, 1, ":") # 0

\* every function definition of the snippet ends its signature with a colon
AlreadyValid(snippet) ==
    \A k \in 1..Len(SplitLines(snippet)) :
        IsDefLine(SplitLines(snippet)[k]) => SignatureHasColon(SplitLines(snippet)[k])

\* after is before with colons inserted and nothing else changed
RECURSIVE ColonsInserted(_, _)
ColonsInserted(before, after) ==
    IF after = <<>> THEN before = <<>>
    ELSE \/ /\ before # <<>>
            /\ Head(before) = Head(after)
            /\ ColonsInserted(Tail(before), Tail(after))
         \/ /\ Head(after) = ":"
            /\ ColonsInserted(before, Tail(after))

\* C24  fix_python_syntax changes nothing when every function definition
\* already ends its signature with a colon, with or without an annotation and
\* with or without a final newline; otherwise the result is the snippet with
\* colons inserted and nothing else changed.
NoChangeWhenValid ==
    call.op = "fix_python_syntax"
        => IF AlreadyValid(call.args.snippet)
           THEN call.ret = call.args.snippet
           ELSE ColonsInserted(call.args.snippet, call.ret)

\* ------------------------------------------------------------------------
\* Properties of the zero-division scan (specification SpecScan)
\* ------------------------------------------------------------------------

\* the node is one of the zero operands: a constant at its column, or an
\* operation in brackets, which starts one column after the bracket
IsZeroOperand(node) ==
    node \in ZeroOperands(node.line, node.col) \cup ZeroOperands(node.line, node.col - 1)

\* the divisions of the tree whose right operand is one of the zero operands
ZeroDivisions(tree) ==
    {k \in 1..Len(Walk(<<tree>>)) :
        /\ Walk(<<tree>>)[k].kind = "BinOp"
        /\ Walk(<<tree>>)[k].op \in DivisionOps
        /\ IsZeroOperand(Walk(<<tree>>)[k].children[2])}

\* the divisions by zero and the findings at one place with one message
SamePlace(tree, issues, issue) ==
    Cardinality({k \in ZeroDivisions(tree) : RuntimeIssue(Walk(<<tree>>)[k]) = issue})
        = Cardinality({k \in 1..Len(issues) : issues[k] = issue})

\* C25  The scan reports exactly one ZeroDivisionError finding for each /, //
\* or % whose right operand is statically 0 (0, False, 3 - 3, 2 * 0) and none
\* for any other operation, and the findings are sorted by line, then column.
OneFindingPerZeroDivision ==
    call.op = "detect_runtime_issues"
        => /\ Len(call.ret) = Cardinality(ZeroDivisions(call.args.tree))
           /\ \A k \in 1..Len(call.ret) : SamePlace(call.args.tree, call.ret, call.ret[k])
           /\ \A k \in 1..(Len(call.ret) - 1) : ~Precedes(call.ret[k + 1], call.ret[k])

\* three findings: two divisions at one column under an if, found after the
\* modulo of the line below, and reported before it
OneFindingPerZeroDivisionWitness ==
    /\ call.op = "detect_runtime_issues"
    /\ Len(call.ret) = 3
    /\ call.ret[1] = call.ret[2]
    /\ call.ret[3].lineno = 3
    /\ \E k \in ZeroDivisions(call.args.tree) :
          Walk(<<call.args.tree>>)[k].children[2].op \in {"bool", "-", "*"}

\* ------------------------------------------------------------------------
\* Properties of the registry's two fields (specification SpecRegistry)
\* ------------------------------------------------------------------------

Returns(thread) ==
    callers[thread].pc = "return" /\ callers'[thread].pc = "idle"

\* the fields are set, by the snippet original_snippet names, and ret is
\* the baseline
WinnerReturned(base, orig, ret) ==
    /\ base # None
    /\ orig # None
    /\ Get(base) = Collect(Get(orig))
    /\ ret = Get(base)

\* C27  Single winner: when threads call register(s) without force and
\* ensure(s) with a non-empty s on a registry without baseline, in any
\* interleaving of their steps, each of these calls returns the baseline,
\* the baseline is what the collector finds in original_snippet, and once
\* the two fields are set no later call changes them.
SingleWinner ==
    [][/\ \A thread \in Sessions :
             (/\ Returns(thread)
              /\ callers[thread].op = "ensure" => Truthy(callers[thread].snippet))
                => WinnerReturned(baseline', original_snippet', call'.ret)
       /\ baseline # None => baseline' = baseline
       /\ original_snippet # None => original_snippet' = original_snippet]_vars

\* a register has returned the baseline another snippet produced, with other
\* identifiers than its own, while the other thread waits for the lock
SingleWinnerWitness ==
    /\ call.op = "register"
    /\ baseline # None
    /\ call.ret = Get(baseline)
    /\ Collect(call.args.snippet) # call.ret
    /\ original_snippet # Some(call.args.snippet)
    /\ \E thread \in Sessions : callers[thread].pc = "acquire"

\* C27 as stated, s being any snippet, the empty one too: every register(s)
\* without force and every ensure(s) returns the one baseline.
SingleWinnerAnySnippet ==
    [][\A thread \in Sessions :
           (/\ Returns(thread)
            /\ callers[thread].op = "ensure" => callers[thread].snippet # None)
               => WinnerReturned(baseline', original_snippet', call'.ret)]_vars

\* ------------------------------------------------------------------------
\* Properties of an empty baseline (specification Spec)
\* ------------------------------------------------------------------------

\* the snippet is empty or does not parse
Unusable(snippet) == snippet = <<>> \/ ast_parse(snippet) = SyntaxError

EmptyBaseline == Some(EmptyIdentifiers)

\* C28  A first register() with an empty or unparsable snippet arms the
\* registry with an empty baseline; while the baseline is empty, validate()
\* returns no violation whatever the snippet, and register without force,
\* ensure, is_protected and validate leave the baseline in place (only
\* reset() or register(force=True) can move it); ensure() with an empty or
\* missing snippet on a registry without baseline leaves it without one.
EmptyBaselineSticks ==
    [][/\ (baseline = None /\ call'.op = "register" /\ Unusable(call'.args.snippet))
            => (baseline' = EmptyBaseline /\ initialized(baseline'))
       /\ (baseline = EmptyBaseline /\ call'.op = "validate")
            => call'.ret = {}
       /\ (baseline = EmptyBaseline /\ KeepsBaseline(call'))
            => baseline' = baseline
       /\ (/\ baseline = None
           /\ call'.op = "ensure"
           /\ call'.args.snippet \in {None, Some(<<>>)})
            => (baseline' = None /\ ~initialized(baseline'))]_vars

\* the registry was armed by a snippet that is empty or does not parse, and a
\* validate of a snippet that does not parse has found no violation
EmptyBaselineSticksWitness ==
    /\ baseline = EmptyBaseline
    /\ original_snippet # None
    /\ Unusable(Get(original_snippet))
    /\ call.op = "validate"
    /\ ast_parse(call.args.snippet) = SyntaxError
    /\ call.ret = {}

\* ------------------------------------------------------------------------
\* Properties of StructuredLoggingAgent's log (specification SpecAgent)
\* ------------------------------------------------------------------------

\* the records of one run, in the order they were logged
RunRecords(run) ==
    LET OfRun(rec) == rec.run_id = run
    IN  SelectSeq(agent_log, OfRun)

TerminalEvents == {"agent_run_end", "agent_run_error"}

\* the records are a start, then chunk records, then at most one terminal
\* record, and the chunk records are the chunks yielded, in order
WellFormed(recs, chunks) ==
    /\ Len(recs) >= 1
    /\ recs[1].event = "agent_run_start"
    /\ \A i \in 2..Len(recs) :
           \/ recs[i].event = "agent_stream_chunk"
           \/ recs[i].event \in TerminalEvents /\ i = Len(recs)
    /\ LET IsChunk(rec) == rec.event = "agent_stream_chunk"
           logged == SelectSeq(recs, IsChunk)
       IN  logged = [i \in 1..Len(logged) |-> [event |-> "agent_stream_chunk",
                                                run_id |-> recs[1].run_id,
                                                chunk |-> chunks[i]]]
           /\ Len(logged) = Len(chunks)

\* the run is over and its last record is the terminal record of its outcome
Terminated(recs, done) ==
    /\ Len(recs) >= 2
    /\ recs[Len(recs)].event =
           IF done = "returned" THEN "agent_run_end" ELSE "agent_run_error"
    /\ done \in {"returned", "raised"}

\* C30  In every run mode, agent_run_start is the run's first record and is
\* logged before the wrapped runnable is called; a run that is over has
\* exactly one terminal record with its run_id, agent_run_end when it
\* succeeded and agent_run_error when it ended with an exception; the
\* agent_stream_chunk records of the run lie between the two, in the order
\* the chunks were yielded.
RunEventsPaired ==
    \A run \in RunIds :
        /\ agent_runs[run].pc = "new" => RunRecords(run) = <<>>
        /\ agent_runs[run].pc # "new"
              => WellFormed(RunRecords(run), agent_runs[run].chunks)
        /\ agent_runs[run].pc = "done"
              => Terminated(RunRecords(run), agent_runs[run].done)

====
